---- MODULE Spec2Model ----
(***************************************************************************)
(* Verification model of the yordam-agent coworker subsystem:              *)
(*   coworker/approval.py, coworker/policy.py, coworker/executor.py,       *)
(*   coworker/run_state.py, coworker/fs_tools.py,                          *)
(*   coworker_runtime/locks.py, coworker_runtime/task_store.py,            *)
(*   coworker_runtime/daemon.py and the runtime cancel/approve commands    *)
(*   of cli.py.                                                            *)
(*                                                                         *)
(* Five specifications share the module:                                   *)
(*   SpecApproval  approval_matches applied to bounded inputs              *)
(*   SpecExec      apply_plan_with_state on a small filesystem             *)
(*   SpecLocks     tasks interleaving acquire_locks / LockHandle.release   *)
(*   Spec          two daemon workers, the task store, the path locks and  *)
(*                 the approve command                                     *)
(*   SpecCancel    one daemon worker, the approve and the cancel command   *)
(***************************************************************************)
EXTENDS Integers, Sequences, FiniteSets, TLC

NONE == "None"       \* Python None / absent key

\* ------------------------------------------------------------------------
\* Paths.  A raw path is a sequence of components as written in a plan; a
\* resolved path is what Path(raw).expanduser().resolve() yields.  "r" is
\* the allowed root directory, "o" a directory outside it, "ln" a symlink
\* inside "r" that points at "o".
\* ------------------------------------------------------------------------
RootDir == <<"r">>
OutDir  == <<"o">>
FsPaths == { <<"r">>, <<"o">>, <<"r", "a">>, <<"r", "b">>, <<"r", "c">>, <<"o", "x">> }

Symlinks == { <<"r", "ln">> }
LinkTarget(p) == OutDir

Parent(p) == IF Len(p) = 0 THEN p ELSE SubSeq(p, 1, Len(p) - 1)

RECURSIVE ResolveFrom(_, _)
ResolveFrom(raw, acc) ==
  IF raw = <<>> THEN acc
  ELSE LET head == Head(raw)
           step == IF head = ".." THEN Parent(acc)
                   ELSE IF Append(acc, head) \in Symlinks
                        THEN LinkTarget(Append(acc, head))
                        ELSE Append(acc, head)
       IN  ResolveFrom(Tail(raw), step)

_resolve_path(raw) == ResolveFrom(raw, <<>>)

IsPrefix(root, path) ==
  /\ Len(root) <= Len(path)
  /\ SubSeq(path, 1, Len(root)) = root

\* path.relative_to(root) succeeds for some root
_is_within_roots(path, roots) == \E root \in roots : IsPrefix(root, path)

\* ------------------------------------------------------------------------
\* Filesystem: resolved path -> "absent" | "dir" | file content
\* ------------------------------------------------------------------------
Exists(f, p)  == IF p \in DOMAIN f THEN f[p] # "absent" ELSE p = <<>>
IsFile(f, p)  == p \in DOMAIN f /\ f[p] \notin {"absent", "dir"}
IsDir(f, p)   == IF p \in DOMAIN f THEN f[p] = "dir" ELSE p = <<>>

InitialFs ==
  [p \in FsPaths |->
     IF p \in {RootDir, OutDir} THEN "dir"
     ELSE IF p = <<"r", "a">> THEN "old"
     ELSE "absent"]

\* ------------------------------------------------------------------------
\* coworker/approval.py
\* ------------------------------------------------------------------------
build_approval(plan_hash, checkpoint_id) ==
  [plan_hash |-> plan_hash,
   checkpoint_id |-> IF checkpoint_id \in {NONE, ""} THEN NONE ELSE checkpoint_id]

approval_matches_anyscope(plan_hash, apr, checkpoint_id) ==
  IF apr.plan_hash # plan_hash THEN FALSE
  ELSE IF checkpoint_id = NONE THEN TRUE
  ELSE apr.checkpoint_id = checkpoint_id

approval_matches(plan_hash, apr, checkpoint_id) ==
  IF apr.plan_hash # plan_hash THEN FALSE
  ELSE IF checkpoint_id = NONE THEN apr.checkpoint_id \in {NONE, ""}
  ELSE apr.checkpoint_id = checkpoint_id


\* Optional values (Python "x or None"): the empty set or a singleton.
Nothing  == {}
Some(x)  == {x}
Get(opt) == CHOOSE x \in opt : TRUE

\* ------------------------------------------------------------------------
\* coworker/plan.py
\* A tool call is [id, tool, path, dst, content, max_bytes]; path and dst are
\* raw paths (<<>> = key absent or empty), content is a string (NONE = key
\* absent), max_bytes is [kind |-> "absent" | "int" | "bad", val |-> n]
\* where "bad" is a JSON value int() cannot convert.
\* A plan is [tool_calls, checkpoints, plan_hash, approval]; the last two
\* are the stored fields that hashing strips.
\* ------------------------------------------------------------------------
WRITE_TOOLS == {"fs.apply_write_file", "fs.move", "fs.rename"}

\* a plan is the dict json.loads returns: a function from its keys to their
\* values (version, always PLAN_VERSION after load_plan, is left out)
\* plan[key] = value
SetField(p, key, value) ==
  [k \in DOMAIN p \cup {key} |-> IF k = key THEN value ELSE p[k]]

\* the dict without the key
DelField(p, key) == [k \in DOMAIN p \ {key} |-> p[k]]

\* plan.setdefault(key, value)
SetDefault(p, key, value) == IF key \in DOMAIN p THEN p ELSE SetField(p, key, value)

_strip_hash_fields_OnlyHash(p) == [k \in DOMAIN p \ {"plan_hash"} |-> p[k]]

_strip_hash_fields(p) == [k \in DOMAIN p \ {"plan_hash", "approval"} |-> p[k]]

\* the keys a plan may carry, in the order sort_keys=True puts them
SortedKeys == <<"approval", "checkpoints", "created_at", "plan_hash", "tool_calls">>

\* json.dumps(payload, sort_keys=True, ...): the items in key order; lists
\* keep their order
json_dumps(payload) ==
  LET ks == SelectSeq(SortedKeys, LAMBDA k : k \in DOMAIN payload) IN
  [i \in 1..Len(ks) |-> <<ks[i], payload[ks[i]]>>]

\* sha256 of the canonical serialisation, taken as collision free
compute_plan_hash(p) == [sha256 |-> json_dumps(_strip_hash_fields(p))]

\* ensure_plan_hash: the hash is stored in the plan and returned
ensure_plan_hash(p) == SetField(p, "plan_hash", compute_plan_hash(p))

\* ensure_plan_fields, called by write_plan before the file is written
ensure_plan_fields(p, ts) == SetDefault(p, "created_at", ts)

\* write_plan: the content of the file, which is also the caller's dict
write_plan(p, ts) == ensure_plan_fields(p, ts)

\* ------------------------------------------------------------------------
\* coworker/registry.py
\* ------------------------------------------------------------------------
DEFAULT_TOOLS ==
  {"fs.read_text", "fs.list_dir", "fs.propose_write_file", "fs.apply_write_file",
   "fs.move", "fs.rename", "doc.extract_pdf_text", "web.fetch"}

IsFsTool(tool) == tool \in {"fs.read_text", "fs.list_dir", "fs.propose_write_file",
                            "fs.apply_write_file", "fs.move", "fs.rename", "fs.delete"}

\* ------------------------------------------------------------------------
\* coworker/policy.py
\* A validation result is [exc, errors]: exc # NONE when validate_plan
\* itself raises instead of returning its list.
\* ------------------------------------------------------------------------
DefaultMaxReadBytes  == 200000
DefaultMaxWriteBytes == 200000

Policy(require_approval) ==
  [allowed_roots    |-> {RootDir},
   max_read_bytes   |-> DefaultMaxReadBytes,
   max_write_bytes  |-> DefaultMaxWriteBytes,
   require_approval |-> require_approval]

Errs(seq)  == [exc |-> NONE, errors |-> seq]
Raises(e)  == [exc |-> e, errors |-> <<>>]
When(cond, msg) == IF cond THEN <<msg>> ELSE <<>>

ContentErrors(tool, content, policy) ==
  When(content = NONE, "requires content")
  \o When(content # NONE /\ Len(content) > policy.max_write_bytes, "content exceeds policy limit")

_validate_fs_call(tool_name, args, policy, f) ==
  IF args.path = <<>> THEN Errs(<<"missing path">>)
  ELSE
    LET path == _resolve_path(args.path) IN
    IF ~_is_within_roots(path, policy.allowed_roots)
    THEN Errs(<<"path outside allowlist">>)
    ELSE
      CASE tool_name = "fs.read_text" ->
             IF args.max_bytes.kind = "bad" THEN Raises("ValueError")
             ELSE LET max_bytes == IF args.max_bytes.kind = "absent"
                                   THEN policy.max_read_bytes
                                   ELSE args.max_bytes.val
                  IN Errs(When(max_bytes <= 0, "max_bytes must be positive")
                          \o When(max_bytes > policy.max_read_bytes, "max_bytes exceeds policy limit")
                          \o When(~Exists(f, path) \/ ~IsFile(f, path), "file missing"))
        [] tool_name = "fs.list_dir" ->
             Errs(When(~Exists(f, path) \/ ~IsDir(f, path), "directory missing"))
        [] tool_name = "fs.propose_write_file" ->
             Errs(ContentErrors(tool_name, args.content, policy))
        [] tool_name = "fs.apply_write_file" ->
             Errs(ContentErrors(tool_name, args.content, policy)
                  \o When(Exists(f, path), "cannot overwrite existing file in v1")
                  \o When(~Exists(f, Parent(path)), "parent directory missing"))
        [] tool_name \in {"fs.move", "fs.rename"} ->
             IF args.dst = <<>> THEN Errs(<<"missing dst">>)
             ELSE LET dst == _resolve_path(args.dst) IN
                  Errs(When(~_is_within_roots(dst, policy.allowed_roots), "dst outside allowlist")
                       \o When(~Exists(f, path), "src missing")
                       \o When(Exists(f, dst), "dst exists (overwrite not allowed)"))
        [] OTHER -> Errs(<<>>)

\* one iteration of the loop of validate_plan
ValidateCall(call, policy, f) ==
  IF call.tool = "" THEN Errs(<<"Tool call missing tool name.">>)
  ELSE IF call.tool \notin DEFAULT_TOOLS THEN Errs(<<"Tool not allowlisted">>)
  ELSE IF IsFsTool(call.tool) THEN _validate_fs_call(call.tool, call, policy, f)
  ELSE Errs(<<>>)

RECURSIVE ValidateFrom(_, _, _, _, _)
ValidateFrom(tool_calls, idx, policy, f, errors) ==
  IF idx > Len(tool_calls) THEN Errs(errors)
  ELSE LET r == ValidateCall(tool_calls[idx], policy, f) IN
       IF r.exc # NONE THEN r
       ELSE ValidateFrom(tool_calls, idx + 1, policy, f, errors \o r.errors)

validate_plan(p, policy, f) ==
  ValidateFrom(p.tool_calls, 1, policy, f,
               When(policy.allowed_roots = {}, "No allowed roots configured for coworker plan."))


\* ------------------------------------------------------------------------
\* coworker/fs_tools.py: the primitives on the filesystem value
\* ------------------------------------------------------------------------
\* temp file + replace: writes the content whether or not the target exists
apply_write_file(f, path, content) ==
  IF path \in DOMAIN f THEN [f EXCEPT ![path] = content] ELSE f

\* shutil.move after mkdir of the parent: the source takes the place of dst
move_path(f, src, dst) ==
  IF src \in DOMAIN f /\ dst \in DOMAIN f
  THEN [f EXCEPT ![dst] = f[src], ![src] = "absent"]
  ELSE f

\* ------------------------------------------------------------------------
\* coworker/run_state.py
\* ------------------------------------------------------------------------
IdRank(id) == CASE id = "1" -> 1 [] id = "2" -> 2 [] id = "3" -> 3 [] id = "4" -> 4 [] OTHER -> 9

\* sorted(completed_ids) as a list
RECURSIVE SortIds(_)
SortIds(ids) ==
  IF ids = {} THEN <<>>
  ELSE LET least == CHOOSE x \in ids : \A y \in ids : IdRank(x) <= IdRank(y)
       IN  <<least>> \o SortIds(ids \ {least})

build_state(plan_hash, completed_ids, next_checkpoint) ==
  [plan_hash |-> plan_hash, completed_ids |-> completed_ids, next_checkpoint |-> next_checkpoint]

SeqToSet(seq) == { seq[i] : i \in 1..Len(seq) }

\* resume_state or {} -> the list of its completed ids
completed_ids_from_state(state) ==
  IF state = Nothing THEN {} ELSE SeqToSet(Get(state).completed_ids)

\* ------------------------------------------------------------------------
\* coworker/executor.py
\* ------------------------------------------------------------------------
RECURSIVE NextCheckpointFrom(_, _, _)
NextCheckpointFrom(checkpoints, idx, completed_ids) ==
  IF idx > Len(checkpoints) THEN NONE
  ELSE IF checkpoints[idx] \notin completed_ids THEN checkpoints[idx]
  ELSE NextCheckpointFrom(checkpoints, idx + 1, completed_ids)

_next_checkpoint_Never(checkpoints, completed_ids) == NONE

_next_checkpoint(checkpoints, completed_ids) == NextCheckpointFrom(checkpoints, 1, completed_ids)

ApprovalGate_AnyHash(plan_hash, policy, approval, checkpoint_ids, next_checkpoint, stop_at_checkpoints) ==
  IF ~policy.require_approval THEN NONE
  ELSE IF approval = Nothing THEN "ApprovalError"
  ELSE NONE

ApprovalGate_AnyScopeAtEnd(plan_hash, policy, approval, checkpoint_ids, next_checkpoint, stop_at_checkpoints) ==
  IF ~policy.require_approval THEN NONE
  ELSE IF approval = Nothing THEN "ApprovalError"
  ELSE IF stop_at_checkpoints /\ checkpoint_ids # <<>>
       THEN IF next_checkpoint \notin {NONE, ""}
            THEN IF ~approval_matches(plan_hash, Get(approval), next_checkpoint)
                 THEN "ApprovalError" ELSE NONE
            ELSE IF Get(approval).plan_hash # plan_hash
                 THEN "ApprovalError" ELSE NONE
       ELSE IF ~approval_matches(plan_hash, Get(approval), NONE)
            THEN "ApprovalError" ELSE NONE

\* lines 82-92: the approval gate; NONE when execution may proceed
ApprovalGate(plan_hash, policy, approval, checkpoint_ids, next_checkpoint, stop_at_checkpoints) ==
  IF ~policy.require_approval THEN NONE
  ELSE IF approval = Nothing THEN "ApprovalError"
  ELSE IF stop_at_checkpoints /\ checkpoint_ids # <<>>
       THEN IF next_checkpoint \notin {NONE, ""}
            THEN IF ~approval_matches(plan_hash, Get(approval), next_checkpoint)
                 THEN "ApprovalError" ELSE NONE
            ELSE IF ~approval_matches(plan_hash, Get(approval), NONE)
                 THEN "ApprovalError" ELSE NONE
       ELSE IF ~approval_matches(plan_hash, Get(approval), NONE)
            THEN "ApprovalError" ELSE NONE

\* lines 72-92: everything apply_plan_with_state does before its loop
ApplyPrelude(p, policy, approval, resume_state, stop_at_checkpoints, f) ==
  LET v == validate_plan(p, policy, f) IN
  IF v.exc # NONE THEN v.exc
  ELSE IF v.errors # <<>> THEN "PlanValidationError"
  ELSE IF resume_state # Nothing /\ Get(resume_state).plan_hash # compute_plan_hash(p)
       THEN "PlanValidationError"
  ELSE ApprovalGate(compute_plan_hash(p), policy, approval, p.checkpoints,
                    _next_checkpoint(p.checkpoints, completed_ids_from_state(resume_state)),
                    stop_at_checkpoints)

\* the destination a write-class call is about to create
DestinationOf(call) ==
  IF call.tool = "fs.apply_write_file" THEN _resolve_path(call.path) ELSE _resolve_path(call.dst)

\* lines 99-158: one tool call dispatched to its primitive: [exc, fs]
ExecCall_NoExistsCheck(call, f) ==
  CASE call.tool = "fs.apply_write_file" ->
         [exc |-> NONE, fs |-> apply_write_file(f, _resolve_path(call.path), call.content)]
    [] call.tool \in {"fs.move", "fs.rename"} ->
         IF ~Exists(f, _resolve_path(call.path)) THEN [exc |-> "OSError", fs |-> f]
         ELSE [exc |-> NONE, fs |-> move_path(f, _resolve_path(call.path), _resolve_path(call.dst))]
    [] OTHER -> [exc |-> NONE, fs |-> f]

ExecCall(call, f) ==
  CASE call.tool = "fs.apply_write_file" ->
         LET path == _resolve_path(call.path) IN
         IF Exists(f, path) THEN [exc |-> "PlanValidationError", fs |-> f]
         ELSE [exc |-> NONE, fs |-> apply_write_file(f, path, call.content)]
    [] call.tool \in {"fs.move", "fs.rename"} ->
         LET src == _resolve_path(call.path)
             dst == _resolve_path(call.dst) IN
         IF Exists(f, dst) THEN [exc |-> "PlanValidationError", fs |-> f]
         ELSE IF ~Exists(f, src) THEN [exc |-> "OSError", fs |-> f]
         ELSE [exc |-> NONE, fs |-> move_path(f, src, dst)]
    [] call.tool = "fs.propose_write_file" -> [exc |-> NONE, fs |-> f]
    [] call.tool = "fs.read_text" ->
         IF ~IsFile(f, _resolve_path(call.path)) THEN [exc |-> "OSError", fs |-> f]
         ELSE [exc |-> NONE, fs |-> f]
    [] call.tool = "fs.list_dir" ->
         IF ~IsDir(f, _resolve_path(call.path)) THEN [exc |-> "OSError", fs |-> f]
         ELSE [exc |-> NONE, fs |-> f]
    [] OTHER -> [exc |-> NONE, fs |-> f]

\* what the run records about a call it reached (not part of the program)
LogEntry(idx, call, before, r) ==
  [idx |-> idx, tool |-> call.tool, exc |-> r.exc,
   is_write    |-> call.tool \in WRITE_TOOLS,
   dst_existed |-> call.tool \in WRITE_TOOLS /\ Exists(before, DestinationOf(call)),
   dst_same    |-> call.tool \in WRITE_TOOLS
                   => (DestinationOf(call) \in DOMAIN before
                       => r.fs[DestinationOf(call)] = before[DestinationOf(call)])]

\* line 97: a call already completed is skipped
SkipCall_Never(call, completed_ids) == FALSE

SkipCall(call, completed_ids) == call.id # "" /\ call.id \in completed_ids

PauseAfter_AlsoFinal(p, idx, call, stop_at_checkpoints) ==
  /\ stop_at_checkpoints
  /\ call.id # ""
  /\ call.id \in SeqToSet(p.checkpoints)

\* lines 161-163: pause after this call?
PauseAfter(p, idx, call, stop_at_checkpoints) ==
  /\ stop_at_checkpoints
  /\ call.id # ""
  /\ call.id \in SeqToSet(p.checkpoints)
  /\ idx # Len(p.tool_calls)

\* lines 95-170: the loop, from call idx on.  The result is
\* [exc, state, fs, completed, executed, log]: exc # NONE when a call raised,
\* state the resume state returned (Nothing = None).
RECURSIVE RunCalls(_, _, _, _, _, _, _)
RunCalls(p, stop_at_checkpoints, idx, f, completed_ids, executed, log) ==
  IF idx > Len(p.tool_calls)
  THEN [exc |-> NONE, state |-> Nothing, fs |-> f, completed |-> completed_ids,
        executed |-> executed, log |-> log]
  ELSE
    LET call == p.tool_calls[idx] IN
    IF SkipCall(call, completed_ids)
    THEN RunCalls(p, stop_at_checkpoints, idx + 1, f, completed_ids, executed, log)
    ELSE
      LET r    == ExecCall(call, f)
          log2 == Append(log, LogEntry(idx, call, f, r))
      IN
      IF r.exc # NONE
      THEN [exc |-> r.exc, state |-> Nothing, fs |-> r.fs, completed |-> completed_ids,
            executed |-> executed, log |-> log2]
      ELSE
        LET done == IF call.id # "" THEN completed_ids \cup {call.id} ELSE completed_ids
            ex2  == Append(executed, idx)
        IN
        IF PauseAfter(p, idx, call, stop_at_checkpoints)
        THEN [exc |-> NONE,
              state |-> Some(build_state(compute_plan_hash(p), SortIds(done),
                                         _next_checkpoint(p.checkpoints, done))),
              fs |-> r.fs, completed |-> done, executed |-> ex2, log |-> log2]
        ELSE RunCalls(p, stop_at_checkpoints, idx + 1, r.fs, done, ex2, log2)

\* apply_plan_with_state as a whole
apply_plan_with_state(p, policy, approval, resume_state, stop_at_checkpoints, f) ==
  LET pre == ApplyPrelude(p, policy, approval, resume_state, stop_at_checkpoints, f) IN
  IF pre # NONE
  THEN [exc |-> pre, state |-> Nothing, fs |-> f,
        completed |-> completed_ids_from_state(resume_state),
        executed |-> <<>>, log |-> <<>>]
  ELSE RunCalls(p, stop_at_checkpoints, 1, f, completed_ids_from_state(resume_state), <<>>, <<>>)


\* ------------------------------------------------------------------------
\* Inputs: the plans the model ranges over
\* ------------------------------------------------------------------------
MaxCalls == 2        \* longest plan

NoMax  == [kind |-> "absent", val |-> 0]
BadMax == [kind |-> "bad", val |-> 0]

Call(tool, path, dst, content, max_bytes) ==
  [id |-> "", tool |-> tool, path |-> path, dst |-> dst, content |-> content,
   max_bytes |-> max_bytes]

CallTemplates ==
  { Call("fs.read_text",          <<"r", "a">>,            <<>>,                 NONE, NoMax),
    Call("fs.read_text",          <<"r", "a">>,            <<>>,                 NONE, BadMax),
    Call("fs.propose_write_file", <<"r", "b">>,            <<>>,                 "hi", NoMax),
    Call("fs.apply_write_file",   <<"r", "b">>,            <<>>,                 "hi", NoMax),
    Call("fs.apply_write_file",   <<"r", "c">>,            <<>>,                 "yo", NoMax),
    Call("fs.apply_write_file",   <<"r", "..", "o", "x">>, <<>>,                 "hi", NoMax),
    Call("fs.move",               <<"r", "a">>,            <<"r", "b">>,         NONE, NoMax),
    Call("fs.rename",             <<"r", "a">>,            <<"r", "ln", "x">>,   NONE, NoMax),
    Call("fs.delete",             <<"o", "x">>,            <<>>,                 NONE, NoMax) }

IdOf(i) == CASE i = 1 -> "1" [] i = 2 -> "2" [] i = 3 -> "3" [] i = 4 -> "4" [] OTHER -> "9"

ToolCallLists ==
  UNION { { [i \in 1..n |-> [f[i] EXCEPT !.id = IdOf(i)]] : f \in [1..n -> CallTemplates] }
          : n \in 0..MaxCalls }

CheckpointLists(n) == { SortIds({ IdOf(i) : i \in S }) : S \in SUBSET (1..n) }

MakePlan(tool_calls, checkpoints) ==
  [tool_calls |-> tool_calls, checkpoints |-> checkpoints]

Plans == UNION { { MakePlan(tc, cps) : cps \in CheckpointLists(Len(tc)) } : tc \in ToolCallLists }

\* ------------------------------------------------------------------------
\* State
\* ------------------------------------------------------------------------
VARIABLES
  plan,                 \* the plan document as apply reads it
  policy,               \* CoworkerPolicy
  approval,             \* the approval handed to apply (Nothing = None)
  resume_state,         \* the resume state handed to apply (Nothing = None)
  stop_at_checkpoints,  \* the flag handed to apply
  fs,                   \* the filesystem
  xpc,                  \* "ready": apply not yet called; "done": it has returned or raised
  result,               \* what the last apply_plan_with_state did
  checkpoint_id,        \* the checkpoint argument of approval_matches
  matches,              \* Nothing, or Some(result of approval_matches)
  lock_files,           \* locks directory: locked path -> task_id in the file (NONE = no file)
  al,                   \* per worker: the locals of its acquire_locks call and its LockHandle
  tasks,                \* the tasks table: task id -> row
  approvals,            \* the approvals table: set of [plan_hash, checkpoint_id] rows
  db_writer,            \* the worker inside a BEGIN IMMEDIATE transaction (NONE = nobody)
  now,                  \* the clock _utc_now() reads, in seconds
  wk,                   \* per worker: where it is in run_once and the locals of _run_task
  cancel,               \* the cancel command: its position and locals
  resume_files,         \* per task: the bundle's resume_state.json (Nothing = no file)
  executed,             \* per task: the ids of the tool calls run for it so far, in order
  returned_to,          \* per task: the workers claim_next_task returned it to since it was last set to queued
  ahead,                \* per task: the tasks queued when it was last set back to queued and not claimed since
  bundle_plan,          \* per task: the plan.json of its bundle
  canceled_waiting,     \* the tasks the cancel command canceled while they were in waiting_approval
  bundle,               \* per task: the state in its task.json and the event of the last line of its events.jsonl
  web                   \* a web.fetch call: the policy, its args, validate_plan's errors for it and the state of fetch_url

\* init_task_bundle lines 56-65: task.json says queued, events.jsonl is empty
NewBundle == [state |-> "queued", last_event |-> "None"]

\* update_task_snapshot: task.json is written anew
update_task_snapshot(b, state) == [b EXCEPT !.state = state]

\* append_event: one more line at the end of events.jsonl
append_event(b, event) == [b EXCEPT !.last_event = event]

\* append_event then update_task_snapshot, as the daemon pairs them
EventAndSnapshot(b, event, state) == update_task_snapshot(append_event(b, event), state)

execVars == <<plan, policy, approval, resume_state, stop_at_checkpoints, fs, xpc, result>>
apprVars == <<checkpoint_id, matches>>
lockVars == <<lock_files, al>>
daemonVars == <<tasks, approvals, db_writer, now, wk, cancel, resume_files, executed, returned_to,
                ahead, bundle_plan, canceled_waiting, bundle>>
webVars == <<web>>
vars == <<execVars, apprVars, lockVars, daemonVars, webVars>>

\* ---------------------------------------------------------------------------
\* web.fetch: validation of the call (policy.py) and fetch_url (web_tools.py)
\* ---------------------------------------------------------------------------

\* A host name is the sequence of its labels, a query string the sequence of its
\* characters, a URL the record of what urlparse returns for it.
ExampleCom == <<"example", "com">>
ExampleComUpper == <<"EXAMPLE", "com">>
ApiExampleCom == <<"API", "example", "com">>
EvilCom == <<"evil", "com">>
WebHosts == {ExampleCom, ApiExampleCom, EvilCom}
WebQueries == {<<>>, <<"q">>, <<"q", "=", "1">>}
WebUrls == [scheme : {"https", "ftp"}, host : WebHosts, query : WebQueries]

MaxQueryChars == 2
MaxWebBytes == 10
MaxRedirects == 2

\* str.lower() on one label and on a host name
LowerLabel(l) == CASE l = "EXAMPLE" -> "example" [] l = "API" -> "api" [] OTHER -> l
Lower(h) == [i \in 1..Len(h) |-> LowerLabel(h[i])]

\* str.upper() on a method name
Upper(m) == CASE m = "get" -> "GET" [] m = "post" -> "POST" [] OTHER -> m

\* host.endswith("." + candidate)
EndsWithDot(host, candidate) ==
  /\ Len(host) > Len(candidate)
  /\ SubSeq(host, Len(host) - Len(candidate) + 1, Len(host)) = candidate

_host_allowed(host, allowlist) ==
  \E i \in 1..Len(allowlist) :
    \/ Lower(host) = Lower(allowlist[i])
    \/ EndsWithDot(Lower(host), Lower(allowlist[i]))

\* bool(allow_query) for the values a plan can carry: None, true, false, a string
Truthy(v) == v \in {"True", "yes"}

WebPolicies ==
  [web_enabled : BOOLEAN,
   web_allowlist : {<<>>, <<ExampleCom>>, <<ExampleComUpper, EvilCom>>},
   max_query_chars : {MaxQueryChars},
   max_web_bytes : {MaxWebBytes}]

WebArgs ==
  [url : {Nothing} \cup {Some(u) : u \in WebUrls},
   allowlist : {Nothing, Some(<<>>), Some(<<ExampleCom>>), Some(<<ExampleComUpper>>),
                Some(<<ExampleCom, EvilCom>>)},
   allow_query : {"None", "True", "False", "yes"},
   max_bytes : {Nothing, Some(0), Some(5), Some(20)},
   method : {Nothing, Some("get"), Some("POST")},
   body : BOOLEAN]

LowerSet(entries) == {Lower(entries[i]) : i \in 1..Len(entries)}

_validate_web_call_url(args, pol, errors) ==
  LET u == Get(args.url)
      allowlist_entries == Get(args.allowlist)
      max_bytes == IF args.max_bytes = Nothing THEN pol.max_web_bytes ELSE Get(args.max_bytes)
      method == Upper(IF args.method = Nothing THEN "GET" ELSE Get(args.method))
  IN IF u.scheme \notin {"http", "https"}
     THEN Append(errors, "web.fetch only supports http(s)")
     ELSE errors
          \o When(u.query # <<>> /\ ~Truthy(args.allow_query),
                  "web.fetch query requires allow_query=true")
          \o When(u.query # <<>> /\ Len(u.query) > pol.max_query_chars,
                  "web.fetch query exceeds policy limit")
          \o When(~_host_allowed(u.host, allowlist_entries), "web.fetch url not in allowlist")
          \o When(max_bytes <= 0, "web.fetch max_bytes must be positive")
          \o When(max_bytes > pol.max_web_bytes, "web.fetch max_bytes exceeds policy limit")
          \o When(method # "GET", "web.fetch method must be GET")

_validate_web_call(args, pol) ==
  IF ~pol.web_enabled THEN <<"web.fetch blocked (web not enabled)">>
  ELSE
    LET errors == When(args.body, "web.fetch includes unsupported fields")
                  \o When(args.body, "web.fetch cannot send local content")
                  \o When(args.allow_query \notin {"None", "True", "False"},
                          "web.fetch allow_query must be boolean")
    IN IF args.url = Nothing THEN Append(errors, "web.fetch missing url")
       ELSE IF args.allowlist \in {Nothing, Some(<<>>)}
       THEN Append(errors, "web.fetch requires per-task allowlist")
       ELSE IF /\ pol.web_allowlist # <<>>
               /\ ~(LowerSet(Get(args.allowlist)) \subseteq LowerSet(pol.web_allowlist))
       THEN Append(errors, "web.fetch allowlist not permitted by policy")
       ELSE _validate_web_call_url(args, pol, errors)

\* _ensure_allowed_url(url, allowlist): the URLError it raises, or "None"
_ensure_allowed_url(u, allowlist) ==
  IF u.scheme \notin {"http", "https"} THEN "URLError"
  ELSE IF ~_host_allowed(u.host, allowlist) THEN "URLError"
  ELSE "None"

\* no web.fetch call in progress
NoWeb ==
  [policy |-> [web_enabled |-> FALSE, web_allowlist |-> <<>>,
               max_query_chars |-> MaxQueryChars, max_web_bytes |-> MaxWebBytes],
   args |-> [url |-> Nothing, allowlist |-> Nothing, allow_query |-> "None",
             max_bytes |-> Nothing, method |-> Nothing, body |-> FALSE],
   errors |-> Nothing, pc |-> "idle", url |-> Nothing, hops |-> 0, exc |-> "None"]

NoResult ==
  [exc |-> NONE, state |-> Nothing, fs |-> InitialFs, completed |-> {},
   executed |-> <<>>, log |-> <<>>]

ExecIdle ==
  /\ plan = MakePlan(<<>>, <<>>)
  /\ policy = Policy(TRUE)
  /\ approval = Nothing
  /\ resume_state = Nothing
  /\ stop_at_checkpoints = FALSE
  /\ fs = InitialFs
  /\ xpc = "ready"
  /\ result = NoResult

ApprIdle ==
  /\ checkpoint_id = NONE
  /\ matches = Nothing

Workers   == {"w1", "w2"}
LockPaths == { <<"r">>, <<"r", "a">>, <<"r", "b">> }

NoLocals ==
  [pc |-> "idle", task |-> NONE, normalized |-> <<>>, i |-> 0, existing |-> {},
   lock_files |-> <<>>]

LockIdle ==
  /\ lock_files = [p \in LockPaths |-> NONE]
  /\ al = [w \in Workers |-> NoLocals]

TaskIds == {"t1", "t2"}

NoWorkerLocals ==
  [pc |-> "idle", task |-> NONE, deferred |-> FALSE, cands |-> <<>>, offset |-> 0, ts |-> 0,
   checkpoint_id |-> NONE, approval |-> Nothing, resume_state |-> Nothing, idx |-> 0,
   completed |-> {}, state |-> Nothing]

NoCancelLocals == [pc |-> "idle", task |-> NONE, was_running |-> FALSE]

DaemonIdle ==
  /\ tasks = [t \in {} |-> NONE]
  /\ approvals = {}
  /\ db_writer = NONE
  /\ now = 0
  /\ wk = [w \in Workers |-> NoWorkerLocals]
  /\ cancel = NoCancelLocals
  /\ resume_files = [t \in TaskIds |-> Nothing]
  /\ executed = [t \in TaskIds |-> <<>>]
  /\ returned_to = [t \in TaskIds |-> <<>>]
  /\ ahead = [t \in TaskIds |-> {}]
  /\ bundle_plan = [t \in TaskIds |-> Nothing]
  /\ canceled_waiting = {}
  /\ bundle = [t \in TaskIds |-> NewBundle]

\* ------------------------------------------------------------------------
\* SpecApproval: approval_matches on bounded inputs
\* ------------------------------------------------------------------------
CheckpointValues == {NONE, "", "1", "2"}

ApprovalPlans ==
  { MakePlan(<<>>, <<>>),
    MakePlan(<<[Call("fs.read_text", <<"r", "a">>, <<>>, NONE, NoMax) EXCEPT !.id = "1"]>>, <<>>),
    MakePlan(<<[Call("fs.read_text", <<"r", "a">>, <<>>, NONE, NoMax) EXCEPT !.id = "1"]>>, <<"1">>) }

InitApproval ==
  /\ web = NoWeb
  /\ plan \in ApprovalPlans
  /\ approval \in { Some([plan_hash |-> compute_plan_hash(q), checkpoint_id |-> c])
                    : q \in ApprovalPlans, c \in CheckpointValues }
  /\ checkpoint_id \in CheckpointValues
  /\ matches = Nothing
  /\ policy = Policy(TRUE)
  /\ resume_state = Nothing
  /\ stop_at_checkpoints = FALSE
  /\ fs = InitialFs
  /\ xpc = "ready"
  /\ result = NoResult
  /\ LockIdle
  /\ DaemonIdle

ApprovalMatchesCall ==
  /\ matches = Nothing
  /\ matches' = Some(approval_matches(compute_plan_hash(plan), Get(approval), checkpoint_id))
  /\ UNCHANGED <<execVars, checkpoint_id, webVars, lockVars, daemonVars>>

NextApproval == ApprovalMatchesCall

SpecApproval == InitApproval /\ [][NextApproval]_vars

\* ------------------------------------------------------------------------
\* SpecExec: the one-shot flow  approve / apply / apply --resume-state
\* ------------------------------------------------------------------------
InitExec ==
  /\ web = NoWeb
  /\ plan \in Plans
  /\ policy \in {Policy(TRUE), Policy(FALSE)}
  /\ approval = Nothing
  /\ resume_state = Nothing
  /\ stop_at_checkpoints \in BOOLEAN
  /\ fs = InitialFs
  /\ xpc = "ready"
  /\ result = NoResult
  /\ ApprIdle
  /\ LockIdle
  /\ DaemonIdle

PlanIds == { plan.tool_calls[i].id : i \in 1..Len(plan.tool_calls) }

\* cmd_coworker_approve: an approval for the plan as it is now
Approve(c) ==
  /\ xpc = "ready"
  /\ approval' = Some(build_approval(compute_plan_hash(plan), c))
  /\ UNCHANGED <<plan, policy, resume_state, stop_at_checkpoints, fs, xpc, result, apprVars, webVars, lockVars, daemonVars>>

\* the plan file is edited after it was approved: its last call is removed
EditPlan ==
  /\ xpc = "ready"
  /\ approval # Nothing
  /\ Len(plan.tool_calls) > 0
  /\ plan' = [plan EXCEPT !.tool_calls = SubSeq(plan.tool_calls, 1, Len(plan.tool_calls) - 1)]
  /\ UNCHANGED <<policy, approval, resume_state, stop_at_checkpoints, fs, xpc, result, apprVars, webVars, lockVars, daemonVars>>

\* cmd_coworker_apply: one call of apply_plan_with_state
Apply ==
  /\ xpc = "ready"
  /\ result' = apply_plan_with_state(plan, policy, approval, resume_state,
                                     stop_at_checkpoints, fs)
  /\ fs' = result'.fs
  /\ xpc' = "done"
  /\ UNCHANGED <<plan, policy, approval, resume_state, stop_at_checkpoints, apprVars, webVars, lockVars, daemonVars>>

\* the returned state is written to the state file and handed to the next apply
Reinvoke ==
  /\ xpc = "done"
  /\ result.exc = NONE
  /\ result.state # Nothing
  /\ resume_state' = result.state
  /\ xpc' = "ready"
  /\ UNCHANGED <<plan, policy, approval, stop_at_checkpoints, fs, result, apprVars, webVars, lockVars, daemonVars>>

NextExec ==
  \/ \E c \in {NONE} \cup PlanIds : Approve(c)
  \/ EditPlan
  \/ Apply
  \/ Reinvoke

SpecExec == InitExec /\ [][NextExec]_vars

TypeOKExec == xpc \in {"ready", "done"}


\* ------------------------------------------------------------------------
\* Properties of approval_matches and apply_plan_with_state
\* ------------------------------------------------------------------------
IsCheckpoint(c) == c \notin {NONE, ""}

\* C5: approval matching is scope-exact: a checkpoint approval (H, c) does
\* not satisfy a plan-level requirement on H, a plan-level approval does not
\* satisfy a requirement (H, c), (H, c) does not satisfy (H, c') for c' # c,
\* and an approval for another hash satisfies nothing.
C5_ScopeExact ==
  matches # Nothing =>
    LET H == compute_plan_hash(plan)
        a == Get(approval)
        m == Get(matches)
    IN  /\ a.plan_hash # H => ~m
        /\ (IsCheckpoint(a.checkpoint_id) /\ checkpoint_id = NONE) => ~m
        /\ (a.checkpoint_id = NONE /\ IsCheckpoint(checkpoint_id)) => ~m
        /\ (IsCheckpoint(a.checkpoint_id) /\ IsCheckpoint(checkpoint_id)
            /\ a.checkpoint_id # checkpoint_id) => ~m

C5_Witness ==
  /\ matches = Some(FALSE)
  /\ Get(approval).plan_hash = compute_plan_hash(plan)
  /\ Get(approval).checkpoint_id = "1"
  /\ checkpoint_id = NONE

ApprovalForPlan ==
  /\ approval # Nothing
  /\ Get(approval).plan_hash = compute_plan_hash(plan)

\* validation and the resume-state hash check both pass on the current state
PreludeValid ==
  LET v == validate_plan(plan, policy, fs) IN
  /\ v.exc = NONE
  /\ v.errors = <<>>
  /\ (resume_state # Nothing => Get(resume_state).plan_hash = compute_plan_hash(plan))

\* C4 as stated: with require_approval, apply raises ApprovalError and executes
\* no tool call unless an approval whose plan_hash is the hash of the plan at
\* apply time is supplied.
C4_Original ==
  (xpc = "done" /\ policy.require_approval /\ ~ApprovalForPlan)
    => (result.exc = "ApprovalError" /\ result.executed = <<>> /\ result.log = <<>>)

\* C4 amended: without such an approval no tool call is executed and apply
\* raises: ApprovalError when validation and the resume-state hash check pass,
\* otherwise the error of that earlier step.
C4_NoApprovalNoExecution ==
  (xpc = "done" /\ policy.require_approval /\ ~ApprovalForPlan)
    => /\ result.executed = <<>>
       /\ result.log = <<>>
       /\ result.exc \in {"ApprovalError", "PlanValidationError", "ValueError"}
       /\ PreludeValid => result.exc = "ApprovalError"

C4_Witness ==
  /\ xpc = "done"
  /\ policy.require_approval
  /\ approval # Nothing
  /\ Get(approval).plan_hash # compute_plan_hash(plan)
  /\ PreludeValid
  /\ Len(plan.tool_calls) > 0
  /\ result.exc = "ApprovalError"

\* the approval handed to apply is the one for the resume target of the state
ApprovalForResumeTarget ==
  policy.require_approval =>
    /\ approval # Nothing
    /\ approval_matches(compute_plan_hash(plan), Get(approval),
                        IF stop_at_checkpoints /\ plan.checkpoints # <<>>
                        THEN Get(resume_state).next_checkpoint ELSE NONE)

\* C7: re-invoked with a returned resume state, apply executes no tool call
\* whose id is in the state's completed_ids.
C7_NoReexecution ==
  (xpc = "done" /\ resume_state # Nothing)
    => \A k \in 1..Len(result.executed) :
         plan.tool_calls[result.executed[k]].id \notin completed_ids_from_state(resume_state)

C7_Witness ==
  /\ xpc = "done"
  /\ resume_state # Nothing
  /\ policy.require_approval
  /\ ApprovalForResumeTarget
  /\ completed_ids_from_state(resume_state) # {}
  /\ result.exc = NONE
  /\ result.executed # <<>>

CompletedWrite ==
  \E i \in 1..Len(plan.tool_calls) :
    /\ plan.tool_calls[i].tool \in WRITE_TOOLS
    /\ plan.tool_calls[i].id \in completed_ids_from_state(resume_state)

\* every call the resume still has to run passes its own validation
RemainingCallsValid ==
  \A i \in 1..Len(plan.tool_calls) :
    plan.tool_calls[i].id \notin completed_ids_from_state(resume_state)
      => ValidateCall(plan.tool_calls[i], policy, fs) = Errs(<<>>)

\* C8: after a pause that followed a completed fs.apply_write_file, fs.move or
\* fs.rename, re-invoking apply with the returned state and the approval for
\* the resume target is accepted and runs the remaining calls.
C8_ResumeAfterWriteAccepted ==
  (/\ xpc = "done"
   /\ policy.require_approval
   /\ resume_state # Nothing
   /\ Get(resume_state).plan_hash = compute_plan_hash(plan)
   /\ CompletedWrite
   /\ RemainingCallsValid
   /\ ApprovalForResumeTarget)
    => /\ result.exc # "PlanValidationError"
       /\ result.executed # <<>>

\* C9: a write-class call reached while its destination exists raises
\* PlanValidationError and leaves the destination as it was.
C9_NoOverwrite ==
  \A k \in 1..Len(result.log) :
    LET e == result.log[k] IN
    (e.is_write /\ e.dst_existed) => (e.exc = "PlanValidationError" /\ e.dst_same)

C9_Witness ==
  /\ xpc = "done"
  /\ \E k \in 1..Len(result.log) :
       /\ result.log[k].is_write
       /\ result.log[k].dst_existed
       /\ result.log[k].idx > 1
       /\ result.log[k].exc = "PlanValidationError"

OutsideRoots(raw) == raw # <<>> /\ ~_is_within_roots(_resolve_path(raw), policy.allowed_roots)

PlanHasOutsideFsCall ==
  \E i \in 1..Len(plan.tool_calls) :
    LET call == plan.tool_calls[i] IN
    /\ IsFsTool(call.tool)
    /\ \/ OutsideRoots(call.path)
       \/ call.tool \in {"fs.move", "fs.rename"} /\ OutsideRoots(call.dst)

\* C10: for a plan with an fs.* call whose path (or dst of a move/rename)
\* resolves outside every allowed root, validate_plan returns at least one
\* error and apply raises PlanValidationError before executing any call.
C10_OutsideRootRejected ==
  (xpc = "done" /\ PlanHasOutsideFsCall) =>
    /\ result.executed = <<>>
    /\ result.exc = "PlanValidationError"
    /\ LET v == validate_plan(plan, policy, fs) IN v.exc = NONE /\ v.errors # <<>>


\* ------------------------------------------------------------------------
\* coworker_runtime/locks.py
\* The lock file of a path is named by a digest of the path, so the locks
\* directory is a map from locked path to the task_id written in the file.
\* ------------------------------------------------------------------------
RECURSIVE DedupeKeepFirst(_, _)
DedupeKeepFirst(seq, seen) ==
  IF seq = <<>> THEN <<>>
  ELSE IF Head(seq) \in seen THEN DedupeKeepFirst(Tail(seq), seen)
  ELSE <<Head(seq)>> \o DedupeKeepFirst(Tail(seq), seen \cup {Head(seq)})

\* resolve each path, drop repeats
_normalize_paths(paths) ==
  DedupeKeepFirst([k \in 1..Len(paths) |-> _resolve_path(paths[k])], {})

_is_within(path, root) == IsPrefix(root, path)

\* sorted(paths, key=len(parts)): stable
RECURSIVE SortByDepthFrom(_, _)
SortByDepthFrom(paths, d) ==
  IF \A k \in 1..Len(paths) : Len(paths[k]) < d THEN <<>>
  ELSE LET HasDepth(q) == Len(q) = d
       IN  SelectSeq(paths, HasDepth) \o SortByDepthFrom(paths, d + 1)

RECURSIVE PruneDescendants(_, _)
PruneDescendants(ordered, deduped) ==
  IF ordered = <<>> THEN deduped
  ELSE IF \E k \in 1..Len(deduped) : _is_within(Head(ordered), deduped[k])
       THEN PruneDescendants(Tail(ordered), deduped)
       ELSE PruneDescendants(Tail(ordered), Append(deduped, Head(ordered)))

_dedupe_paths(paths) == PruneDescendants(SortByDepthFrom(paths, 0), <<>>)

\* the (lock_path, task_id) entries read from the lock files present
_load_existing_locks(lf) ==
  { <<q, lf[q]>> : q \in { r \in DOMAIN lf : lf[r] # NONE } }

SelfAndParents(path) == { SubSeq(path, 1, n) : n \in 0..Len(path) }

_has_overlap_conflict(path, existing_locks, lf, task_id) ==
  \/ \E root \in SelfAndParents(path) \cap DOMAIN lf : lf[root] \notin {NONE, task_id}
  \/ \E e \in existing_locks :
       /\ e[2] # task_id
       /\ (_is_within(e[1], path) \/ _is_within(path, e[1]))

\* unlink, ignoring files already gone
Unlink(lf, paths) == [q \in DOMAIN lf |-> IF q \in paths THEN NONE ELSE lf[q]]

\* acquire_locks lines 29-32: the call starts
AL_Begin(w, task_id, paths) ==
  al' = [al EXCEPT ![w] =
           [pc |-> "check", task |-> task_id,
            normalized |-> _dedupe_paths(_normalize_paths(paths)),
            i |-> 1,
            existing |-> _load_existing_locks(lock_files),
            lock_files |-> <<>>]]

\* a conflict: _release_files(lock_files), return the empty handle
AL_Fail(w) ==
  /\ lock_files' = Unlink(lock_files, SeqToSet(al[w].lock_files))
  /\ al' = [al EXCEPT ![w].pc = "failed", ![w].lock_files = <<>>, ![w].normalized = <<>>,
                      ![w].existing = {}, ![w].i = 0]

\* lock_files.append(lock_file) and the next round of the loop
AL_Advance(w, lf) ==
  /\ lock_files' = lf
  /\ al' = [al EXCEPT
              ![w].lock_files = Append(al[w].lock_files, al[w].normalized[al[w].i]),
              ![w].existing = IF al[w].i = Len(al[w].normalized) THEN {} ELSE al[w].existing,
              ![w].i = IF al[w].i = Len(al[w].normalized) THEN 0 ELSE al[w].i + 1,
              ![w].pc = IF al[w].i = Len(al[w].normalized) THEN "held" ELSE "check"]

\* line 34: _has_overlap_conflict for the current path
AL_Check(w) ==
  /\ al[w].pc = "check"
  /\ IF _has_overlap_conflict(al[w].normalized[al[w].i], al[w].existing, lock_files, al[w].task)
     THEN AL_Fail(w)
     ELSE /\ al' = [al EXCEPT ![w].pc = "exists"]
          /\ UNCHANGED lock_files

\* lines 38-42: lock_file.exists() and, if so, who holds it
AL_Exists(w) ==
  /\ al[w].pc = "exists"
  /\ LET path == al[w].normalized[al[w].i] IN
     IF lock_files[path] # NONE
     THEN IF lock_files[path] # al[w].task THEN AL_Fail(w) ELSE AL_Advance(w, lock_files)
     ELSE /\ al' = [al EXCEPT ![w].pc = "create"]
          /\ UNCHANGED lock_files

\* lines 44-46: _create_lock with O_CREAT | O_EXCL
AL_Create(w) ==
  /\ al[w].pc = "create"
  /\ LET path == al[w].normalized[al[w].i] IN
     IF lock_files[path] # NONE
     THEN AL_Fail(w)
     ELSE AL_Advance(w, [lock_files EXCEPT ![path] = al[w].task])

\* LockHandle.release: unlink every lock file of the handle
HandleRelease_KeepFiles(w) ==
  /\ lock_files' = lock_files
  /\ al' = [al EXCEPT ![w] = NoLocals]

HandleRelease(w) ==
  /\ lock_files' = Unlink(lock_files, SeqToSet(al[w].lock_files))
  /\ al' = [al EXCEPT ![w] = NoLocals]

\* release_task_locks: unlink the lock files of these paths still owned by task_id
release_task_locks(lf, paths, task_id) ==
  Unlink(lf, { q \in SeqToSet(_normalize_paths(paths)) \cap DOMAIN lf : lf[q] = task_id })

\* ------------------------------------------------------------------------
\* SpecLocks: each worker takes and gives back path locks for its own task
\* ------------------------------------------------------------------------
TaskOfCaller(w) == IF w = "w1" THEN "t1" ELSE "t2"

LockRequests ==
  { <<<<"r">>>>, <<<<"r", "a">>>>, <<<<"r", "b">>>>,
    <<<<"r", "a">>, <<"r", "b">>>>, <<<<"r", "b">>, <<"r", "a">>>>,
    <<<<"r", "a">>, <<"r">>>> }

InitLocks ==
  /\ web = NoWeb
  /\ ExecIdle
  /\ ApprIdle
  /\ LockIdle
  /\ DaemonIdle

LK_Acquire(w, paths) ==
  /\ al[w].pc \in {"idle", "failed"}
  /\ AL_Begin(w, TaskOfCaller(w), paths)
  /\ UNCHANGED <<lock_files, execVars, apprVars, webVars, daemonVars>>

LK_Check(w)  == AL_Check(w) /\ UNCHANGED <<execVars, apprVars, webVars, daemonVars>>
LK_Exists(w) == AL_Exists(w) /\ UNCHANGED <<execVars, apprVars, webVars, daemonVars>>
LK_Create(w) == AL_Create(w) /\ UNCHANGED <<execVars, apprVars, webVars, daemonVars>>

\* the holder is done: handle.release()
LK_Release(w) ==
  /\ al[w].pc = "held"
  /\ HandleRelease(w)
  /\ UNCHANGED <<execVars, apprVars, webVars, daemonVars>>

\* the holder returns with retain_lock set: the files stay, the handle is dropped
LK_Retain(w) ==
  /\ al[w].pc = "held"
  /\ al' = [al EXCEPT ![w] = NoLocals]
  /\ UNCHANGED <<lock_files, execVars, apprVars, webVars, daemonVars>>

\* the cancel command gives back the locks of a task nobody is running
LK_ReleaseTaskLocks(w, paths) ==
  /\ al[w].pc = "idle"
  /\ \E q \in DOMAIN lock_files : lock_files[q] = TaskOfCaller(w)
  /\ lock_files' = release_task_locks(lock_files, paths, TaskOfCaller(w))
  /\ UNCHANGED <<al, execVars, apprVars, webVars, daemonVars>>

NextLocks ==
  \E w \in Workers :
    \/ \E paths \in LockRequests : LK_Acquire(w, paths)
    \/ LK_Check(w)
    \/ LK_Exists(w)
    \/ LK_Create(w)
    \/ LK_Release(w)
    \/ LK_Retain(w)
    \/ \E paths \in LockRequests : LK_ReleaseTaskLocks(w, paths)

SpecLocks == InitLocks /\ [][NextLocks]_vars

Overlap(p, q) == _is_within(p, q) \/ _is_within(q, p)

NoAcquireInProgress == \A w \in Workers : al[w].pc \in {"idle", "held", "failed"}

\* C2: two distinct tasks never hold, at the same time, lock files for two
\* paths of which one equals or is an ancestor of the other.
C2_NoOverlappingHolders ==
  NoAcquireInProgress =>
    \A p \in LockPaths, q \in LockPaths :
      (lock_files[p] # NONE /\ lock_files[q] # NONE /\ lock_files[p] # lock_files[q])
        => ~Overlap(p, q)


\* ------------------------------------------------------------------------
\* The runtime: what is submitted.  Each task was queued by `coworker-runtime
\* submit` with its plan, its plan hash and its selected paths.
\* ------------------------------------------------------------------------
WithIds(calls) == [i \in 1..Len(calls) |-> [calls[i] EXCEPT !.id = IdOf(i)]]

\* the plan files of the two tasks; they carry a created_at field
TaskPlan(t) ==
  SetField(
    IF t = "t1"
    THEN MakePlan(WithIds(<<Call("fs.propose_write_file", <<"r", "b">>, <<>>, "hi", NoMax),
                            Call("fs.apply_write_file",   <<"r", "b">>, <<>>, "hi", NoMax)>>),
                  <<"1">>)
    ELSE MakePlan(WithIds(<<Call("fs.read_text",          <<"r", "a">>, <<>>, NONE, NoMax),
                            Call("fs.apply_write_file",   <<"r", "c">>, <<>>, "yo", NoMax)>>),
                  <<>>),
    "created_at", 0)

\* init_task_bundle lines 48-49: the plan.json written into a new bundle
init_task_bundle(p, ts) == write_plan(ensure_plan_hash(p), ts)

\* cmd_coworker_runtime_submit lines 1063-1065 and 1102-1107: the plan.json
\* of the bundle for the plan file p
SubmittedBundle(p, ts) == init_task_bundle(write_plan(ensure_plan_hash(p), ts), ts)

\* metadata.selected_paths
SelectedPaths(t) == IF t = "t1" THEN <<<<"r">>>> ELSE <<<<"r", "a">>>>

\* the metadata column of the two tasks as submit writes it: the selected
\* paths and the policy's allowed roots
TaskMetadata(t) == [selected_paths |-> SelectedPaths(t), allowed_roots |-> <<RootDir>>]

\* policy_from_config: the configured coworker_allowed_paths, then the selected
\* paths; a selected file contributes its parent directory
policy_from_config(cfg, selected_paths, f) ==
  [cfg EXCEPT !.allowed_roots = @ \cup
     { IF IsFile(f, _resolve_path(selected_paths[k]))
       THEN Parent(_resolve_path(selected_paths[k]))
       ELSE _resolve_path(selected_paths[k]) : k \in 1..Len(selected_paths) }]

\* ------------------------------------------------------------------------
\* coworker_runtime/task_store.py
\* ------------------------------------------------------------------------
MaxClock == 1        \* the clock stops advancing here

NewTask(t) ==
  [state |-> "queued", plan_hash |-> compute_plan_hash(TaskPlan(t)),
   current_step |-> 0, next_checkpoint |-> NONE, locked_by |-> NONE, error |-> NONE,
   created_at |-> 0, updated_at |-> 0, metadata |-> TaskMetadata(t)]

\* the row filter of claim_next_task: SELECT ... WHERE state = 'queued' and
\* UPDATE ... WHERE id = ? AND state = 'queued'
Claimable_AnyLive(row) == row.state \in {"queued", "running"}

Claimable(row) == row.state = "queued"

\* ORDER BY updated_at ASC, created_at ASC LIMIT 1: the rows that may come first
OldestQueued(tk) ==
  { t \in DOMAIN tk :
      /\ Claimable(tk[t])
      /\ \A u \in DOMAIN tk :
           Claimable(tk[u]) =>
             \/ tk[t].updated_at < tk[u].updated_at
             \/ /\ tk[t].updated_at = tk[u].updated_at
                /\ tk[t].created_at <= tk[u].created_at }

\* the UPDATE of claim_task and claim_next_task
ClaimRow(row, worker_id, ts) ==
  [row EXCEPT !.state = "running", !.locked_by = worker_id, !.updated_at = ts]

\* update_task_state: error, next_checkpoint and current_step are optional
\* (Nothing = left alone); clear_lock nulls locked_by
update_task_state(row, state, error, next_checkpoint, current_step, clear_lock, ts) ==
  [row EXCEPT
     !.state = state,
     !.updated_at = ts,
     !.error = IF error = Nothing THEN @ ELSE Get(error),
     !.next_checkpoint = IF next_checkpoint = Nothing THEN @ ELSE Get(next_checkpoint),
     !.current_step = IF current_step = Nothing THEN @ ELSE Get(current_step),
     !.locked_by = IF clear_lock THEN NONE ELSE @]

\* latest_approval_any: the rows for this hash, whatever their checkpoint
latest_approval_any(rows, plan_hash, cp) ==
  { a \in rows : a.plan_hash = plan_hash }

\* latest_approval: the rows for exactly this hash and checkpoint
latest_approval(rows, plan_hash, cp) ==
  { a \in rows : a.plan_hash = plan_hash /\ a.checkpoint_id = cp }

\* list_tasks(state=...) ORDER BY created_at DESC: any order the ties allow
ListByState(tk, state) ==
  LET ids == { t \in DOMAIN tk : tk[t].state = state } IN
  { sq \in UNION { [1..n -> ids] : n \in {Cardinality(ids)} } :
      /\ \A i, j \in 1..Len(sq) : i # j => sq[i] # sq[j]
      /\ \A i, j \in 1..Len(sq) : i < j => tk[sq[i]].created_at >= tk[sq[j]].created_at }

\* ------------------------------------------------------------------------
\* coworker_runtime/daemon.py
\* ------------------------------------------------------------------------
\* _resolve_checkpoint_id
_resolve_checkpoint_id(checkpoints, state) ==
  IF state # Nothing THEN Get(state).next_checkpoint
  ELSE IF checkpoints # <<>> THEN checkpoints[1]
  ELSE NONE

\* _resolve_approval: the payload built from the latest matching row
_resolve_approval(rows, plan_hash, cp) ==
  LET found == latest_approval(rows, plan_hash, cp) IN
  IF found = {} THEN Nothing
  ELSE LET row == CHOOSE a \in found : TRUE IN
       Some([plan_hash |-> row.plan_hash,
             checkpoint_id |-> IF row.checkpoint_id \in {NONE, ""} THEN NONE
                               ELSE row.checkpoint_id])

TaskPolicy(t) == policy_from_config(policy, tasks[t].metadata.selected_paths, fs)

StopAtCheckpoints(t) == TaskPlan(t).checkpoints # <<>> /\ policy.require_approval

DbFree == db_writer = NONE


execRest == <<plan, policy, approval, resume_state, stop_at_checkpoints, xpc, result>>

\* run_once returns: the worker is free for its next round
Return(w) == [wk EXCEPT ![w] = NoWorkerLocals]

\* the approvals `coworker-runtime approve` may record
ApprovalRows ==
  { [plan_hash |-> compute_plan_hash(TaskPlan("t1")), checkpoint_id |-> "1"],
    [plan_hash |-> compute_plan_hash(TaskPlan("t1")), checkpoint_id |-> NONE],
    [plan_hash |-> compute_plan_hash(TaskPlan("t2")), checkpoint_id |-> NONE] }

Init ==
  /\ web = NoWeb
  /\ plan = MakePlan(<<>>, <<>>)
  /\ policy = Policy(TRUE)
  /\ approval = Nothing
  /\ resume_state = Nothing
  /\ stop_at_checkpoints = FALSE
  /\ fs = InitialFs
  /\ xpc = "ready"
  /\ result = NoResult
  /\ ApprIdle
  /\ LockIdle
  /\ tasks = [t \in TaskIds |-> NewTask(t)]
  /\ approvals = {}
  /\ db_writer = NONE
  /\ now = 0
  /\ wk = [w \in Workers |-> NoWorkerLocals]
  /\ cancel = NoCancelLocals
  /\ resume_files = [t \in TaskIds |-> Nothing]
  /\ executed = [t \in TaskIds |-> <<>>]
  /\ returned_to = [t \in TaskIds |-> <<>>]
  /\ ahead = [t \in TaskIds |-> {}]
  /\ bundle_plan = [t \in TaskIds |-> Some(SubmittedBundle(TaskPlan(t), 0))]
  /\ canceled_waiting = {}
  /\ bundle = [t \in TaskIds |-> NewBundle]

\* the clock moves on
Tick ==
  /\ now < MaxClock
  /\ now' = now + 1
  /\ UNCHANGED <<execVars, apprVars, webVars, lockVars, tasks, approvals, db_writer, wk, cancel,
                 resume_files, executed, returned_to, ahead, bundle_plan,
                 canceled_waiting, bundle>>

\* record_approval as an UPSERT: the new row replaces the rows recorded before
RecordApproval_Replacing(row) ==
  /\ DbFree
  /\ row \notin approvals
  /\ approvals' = {row}
  /\ UNCHANGED <<execVars, apprVars, webVars, lockVars, tasks, db_writer, now, wk, cancel,
                 resume_files, executed, returned_to, ahead, bundle_plan,
                 canceled_waiting, bundle>>

\* cmd_coworker_runtime_approve: record_approval
RecordApproval(row) ==
  /\ DbFree
  /\ row \notin approvals
  /\ approvals' = approvals \cup {row}
  /\ UNCHANGED <<execVars, apprVars, webVars, lockVars, tasks, db_writer, now, wk, cancel,
                 resume_files, executed, returned_to, ahead, bundle_plan,
                 canceled_waiting, bundle>>

\* claim_next_task lines 251-260: _utc_now(), BEGIN IMMEDIATE and the SELECT
W_ClaimSelect(w) ==
  /\ wk[w].pc = "idle"
  /\ DbFree
  /\ \/ /\ OldestQueued(tasks) = {}
        /\ wk' = [wk EXCEPT ![w].pc = "cw_list"]
        /\ UNCHANGED db_writer
     \/ \E t \in OldestQueued(tasks) :
          /\ wk' = [wk EXCEPT ![w].pc = "cnt_update", ![w].task = t, ![w].ts = now]
          /\ db_writer' = w
  /\ UNCHANGED <<execVars, apprVars, webVars, lockVars, tasks, approvals, now, cancel,
                 resume_files, executed, returned_to, ahead, bundle_plan,
                 canceled_waiting, bundle>>

\* claim_next_task lines 261-272: the conditional UPDATE, the commit, get_task
W_ClaimUpdate(w) ==
  /\ wk[w].pc = "cnt_update"
  /\ db_writer = w
  /\ db_writer' = NONE
  /\ LET t == wk[w].task IN
     IF Claimable(tasks[t])
     THEN /\ tasks' = [tasks EXCEPT ![t] = ClaimRow(@, w, wk[w].ts)]
          /\ returned_to' = [returned_to EXCEPT ![t] = IF Len(@) < 2 THEN Append(@, w) ELSE @]
          /\ wk' = [wk EXCEPT ![w].pc = "rt_latest"]
     ELSE /\ wk' = [wk EXCEPT ![w].pc = "cw_list", ![w].task = NONE]
          /\ UNCHANGED <<tasks, returned_to, ahead>>
  /\ UNCHANGED <<execVars, apprVars, webVars, lockVars, approvals, now, cancel, resume_files, executed,
                 ahead, bundle_plan,
                 canceled_waiting, bundle>>


\* _claim_waiting_task line 285: one page of list_tasks(state="waiting_approval")
W_WaitingList(w) ==
  /\ wk[w].pc = "cw_list"
  /\ \E listing \in ListByState(tasks, "waiting_approval") :
       LET page == SubSeq(listing, wk[w].offset + 1, Len(listing)) IN
       IF page = <<>>
       THEN wk' = Return(w)
       ELSE wk' = [wk EXCEPT ![w].pc = "cw_try",
                             ![w].cands = [i \in 1..Len(page) |->
                                             [id |-> page[i],
                                              next_checkpoint |-> tasks[page[i]].next_checkpoint]]]
  /\ UNCHANGED <<execVars, apprVars, webVars, lockVars, tasks, approvals, db_writer, now, cancel,
                 resume_files, executed, returned_to, ahead, bundle_plan,
                 canceled_waiting, bundle>>

\* _claim_waiting_task lines 288-295: the next candidate of the page
W_WaitingTry(w) ==
  /\ wk[w].pc = "cw_try"
  /\ DbFree
  /\ LET c == wk[w].cands[1] IN
     IF /\ latest_approval(approvals, tasks[c.id].plan_hash, c.next_checkpoint) # {}
        /\ tasks[c.id].state = "waiting_approval"
     THEN /\ tasks' = [tasks EXCEPT ![c.id] = ClaimRow(@, w, now)]
          /\ wk' = [wk EXCEPT ![w].pc = "rt_latest", ![w].task = c.id, ![w].cands = <<>>,
                              ![w].offset = 0]
     ELSE /\ wk' = [wk EXCEPT ![w].cands = Tail(@),
                              ![w].offset = @ + 1,
                              ![w].pc = IF Len(wk[w].cands) > 1 THEN "cw_try" ELSE "cw_list"]
          /\ UNCHANGED tasks
  /\ UNCHANGED <<execVars, apprVars, webVars, lockVars, approvals, db_writer, now, cancel,
                 resume_files, executed, returned_to, ahead, bundle_plan,
                 canceled_waiting, bundle>>

\* _try_lock_task lines 370-372: LockHandle(paths=[], lock_files=[])
EmptyHandle(t) == [NoLocals EXCEPT !.pc = "held", !.task = t]

\* _run_task lines 52-73 and _try_lock_task lines 370-379: the task is read
\* again; a canceled task is done with; a task without selected paths gets
\* an empty handle; otherwise acquire_locks starts
W_RunLatest(w) ==
  /\ wk[w].pc = "rt_latest"
  /\ IF tasks[wk[w].task].state = "canceled"
     THEN /\ wk' = Return(w)
          /\ bundle' = [bundle EXCEPT ![wk[w].task] =
                          EventAndSnapshot(@, "task_canceled", "canceled")]
          /\ UNCHANGED al
     ELSE IF tasks[wk[w].task].metadata.selected_paths = <<>>
     THEN /\ al' = [al EXCEPT ![w] = EmptyHandle(wk[w].task)]
          /\ wk' = [wk EXCEPT ![w].pc = "rt_locking"]
          /\ UNCHANGED bundle
     ELSE /\ AL_Begin(w, wk[w].task, tasks[wk[w].task].metadata.selected_paths)
          /\ wk' = [wk EXCEPT ![w].pc = "rt_locking"]
          /\ UNCHANGED bundle
  /\ UNCHANGED <<execVars, apprVars, webVars, lock_files, tasks, approvals, db_writer, now, cancel,
                 resume_files, executed, returned_to, ahead, bundle_plan,
                 canceled_waiting>>

\* acquire_locks, step by step
W_LockCheck(w) ==
  /\ wk[w].pc = "rt_locking"
  /\ AL_Check(w)
  /\ UNCHANGED <<execVars, apprVars, webVars, daemonVars>>

W_LockExists(w) ==
  /\ wk[w].pc = "rt_locking"
  /\ AL_Exists(w)
  /\ UNCHANGED <<execVars, apprVars, webVars, daemonVars>>

W_LockCreate(w) ==
  /\ wk[w].pc = "rt_locking"
  /\ AL_Create(w)
  /\ UNCHANGED <<execVars, apprVars, webVars, daemonVars>>

\* _try_lock_task line 381 with the DB lock left in place
RequeueOnLockFailure_KeepLock(row, ts) ==
  update_task_state(row, "queued", Nothing, Nothing, Nothing, FALSE, ts)

\* _try_lock_task line 381 writing another state
RequeueOnLockFailure_Waiting(row, ts) ==
  update_task_state(row, "waiting_approval", Nothing, Nothing, Nothing, TRUE, ts)

\* _try_lock_task line 381: update_task_state(state="queued", clear_lock=True)
RequeueOnLockFailure(row, ts) ==
  update_task_state(row, "queued", Nothing, Nothing, Nothing, TRUE, ts)

\* _try_lock_task lines 380-398 and run_once lines 33-37: the locks are busy,
\* the task goes back to queued and the worker looks for a waiting task
W_LockFailed(w) ==
  /\ wk[w].pc = "rt_locking"
  /\ al[w].pc = "failed"
  /\ DbFree
  /\ LET t == wk[w].task IN
     /\ tasks' = [tasks EXCEPT ![t] = RequeueOnLockFailure(@, now)]
     /\ returned_to' = [returned_to EXCEPT ![t] = <<>>]
     /\ bundle' = [bundle EXCEPT ![t] = append_event(@, "task_lock_failed")]
  /\ al' = [al EXCEPT ![w] = NoLocals]
  /\ wk' = IF wk[w].deferred THEN Return(w)
           ELSE [wk EXCEPT ![w] = [NoWorkerLocals EXCEPT !.pc = "cw_list", !.deferred = TRUE]]
  /\ UNCHANGED <<execVars, apprVars, webVars, lock_files, approvals, db_writer, now, cancel,
                 resume_files, executed, ahead, bundle_plan,
                 canceled_waiting>>

PlanHashMismatch == "plan hash mismatch; refusing to execute"

\* _run_task lines 77-166: the plan.json of the bundle is loaded and its hash
\* compared with the row's; then the resume state is loaded, the pending
\* checkpoint and its approval are resolved; without the approval the task waits
W_Gate(w) ==
  /\ wk[w].pc = "rt_locking"
  /\ al[w].pc = "held"
  /\ LET t   == wk[w].task
         rs  == resume_files[t]
         cp  == _resolve_checkpoint_id(TaskPlan(t).checkpoints, rs)
         apr == _resolve_approval(approvals, compute_plan_hash(TaskPlan(t)), cp)
     IN
     IF compute_plan_hash(Get(bundle_plan[t])) # tasks[t].plan_hash
     THEN /\ DbFree
          /\ tasks' = [tasks EXCEPT ![t] =
                         update_task_state(@, "failed", Some(PlanHashMismatch), Nothing,
                                           Nothing, TRUE, now)]
          /\ bundle' = [bundle EXCEPT ![t] = EventAndSnapshot(@, "task_failed", "failed")]
          /\ HandleRelease(w)
          /\ wk' = Return(w)
     ELSE IF policy.require_approval /\ apr = Nothing
     THEN /\ DbFree
          /\ tasks' = [tasks EXCEPT ![t] =
                         update_task_state(@, "waiting_approval", Nothing, Some(cp), Nothing,
                                           FALSE, now)]
          /\ bundle' = [bundle EXCEPT ![t] =
                          EventAndSnapshot(EventAndSnapshot(@, "task_claimed", "running"),
                                           "task_waiting_approval", "waiting_approval")]
          /\ al' = [al EXCEPT ![w] = NoLocals]
          /\ wk' = Return(w)
          /\ UNCHANGED lock_files
     ELSE /\ wk' = [wk EXCEPT ![w].pc = "rt_apply", ![w].resume_state = rs,
                              ![w].checkpoint_id = cp, ![w].approval = apr]
          /\ bundle' = [bundle EXCEPT ![t] = EventAndSnapshot(@, "task_claimed", "running")]
          /\ UNCHANGED <<tasks, al, lock_files>>
  /\ UNCHANGED <<execVars, apprVars, webVars, approvals, db_writer, now, cancel,
                 resume_files, executed, returned_to, ahead, bundle_plan,
                 canceled_waiting>>


\* how _run_task and run_once leave after apply_plan_with_state raised exc:
\* ApprovalError -> waiting_approval, locks retained (lines 178-201);
\* PlanValidationError -> failed (lines 202-223); anything else -> failed by
\* run_once (lines 30-32), which writes nothing into the bundle; the handle
\* is released unless retained
LeaveOnError(w, exc) ==
  LET t == wk[w].task IN
  /\ DbFree
  /\ IF exc = "ApprovalError"
     THEN /\ tasks' = [tasks EXCEPT ![t] =
                         update_task_state(@, "waiting_approval", Nothing,
                                           Some(wk[w].checkpoint_id), Nothing, FALSE, now)]
          /\ bundle' = [bundle EXCEPT ![t] =
                          EventAndSnapshot(@, "task_waiting_approval", "waiting_approval")]
          /\ al' = [al EXCEPT ![w] = NoLocals]
          /\ UNCHANGED lock_files
     ELSE /\ tasks' = [tasks EXCEPT ![t] =
                         update_task_state(@, "failed", Some(exc), Nothing, Nothing, TRUE, now)]
          /\ bundle' = IF exc = "PlanValidationError"
                       THEN [bundle EXCEPT ![t] = EventAndSnapshot(@, "task_failed", "failed")]
                       ELSE bundle
          /\ HandleRelease(w)
  /\ wk' = Return(w)

\* where the loop of apply_plan_with_state goes after call idx
AfterCall(w, idx, done, state) ==
  IF state = Nothing /\ idx < Len(TaskPlan(wk[w].task).tool_calls)
  THEN [wk EXCEPT ![w].pc = "rt_call", ![w].idx = idx + 1, ![w].completed = done]
  ELSE [wk EXCEPT ![w].pc = "rt_check_cancel", ![w].idx = 0, ![w].completed = done,
                  ![w].state = state]

\* executor.py lines 72-92 inside _run_task line 168: validation, the resume
\* hash check and the approval gate
W_ApplyPrelude(w) ==
  /\ wk[w].pc = "rt_apply"
  /\ LET t   == wk[w].task
         pre == ApplyPrelude(TaskPlan(t), TaskPolicy(t), wk[w].approval, wk[w].resume_state,
                             StopAtCheckpoints(t), fs)
     IN
     IF pre # NONE
     THEN LeaveOnError(w, pre)
     ELSE /\ wk' = AfterCall(w, 0, completed_ids_from_state(wk[w].resume_state), Nothing)
          /\ UNCHANGED <<tasks, lockVars, bundle>>
  /\ UNCHANGED <<execVars, apprVars, webVars, approvals, db_writer, now, cancel, resume_files,
                 executed, returned_to, ahead, bundle_plan,
                 canceled_waiting>>

\* executor.py lines 95-170: one round of the loop
W_Call(w) ==
  /\ wk[w].pc = "rt_call"
  /\ LET t    == wk[w].task
         p    == TaskPlan(t)
         idx  == wk[w].idx
         call == p.tool_calls[idx]
         r    == ExecCall(call, fs)
         done == IF call.id # "" THEN wk[w].completed \cup {call.id} ELSE wk[w].completed
     IN
     IF SkipCall(call, wk[w].completed)
     THEN /\ wk' = AfterCall(w, idx, wk[w].completed, Nothing)
          /\ UNCHANGED <<tasks, lockVars, fs, executed, bundle>>
     ELSE IF r.exc # NONE
     THEN /\ LeaveOnError(w, r.exc)
          /\ UNCHANGED <<fs, executed>>
     ELSE /\ fs' = r.fs
          /\ executed' = [executed EXCEPT ![t] = Append(@, call.id)]
          /\ wk' = AfterCall(w, idx, done,
                     IF PauseAfter(p, idx, call, StopAtCheckpoints(t))
                     THEN Some(build_state(compute_plan_hash(p), SortIds(done),
                                           _next_checkpoint(p.checkpoints, done)))
                     ELSE Nothing)
          /\ UNCHANGED <<tasks, lockVars, bundle>>
  /\ UNCHANGED <<execRest, apprVars, webVars, approvals, db_writer, now, cancel, resume_files,
                 returned_to, ahead, bundle_plan,
                 canceled_waiting>>

\* _emit_tool_results: one tool_call_finished event per result of this apply
_emit_tool_results(b, ran) == IF ran = {} THEN b ELSE append_event(b, "tool_call_finished")

\* _run_task lines 225-229: the results are logged; was the task canceled
\* meanwhile?
W_CheckCancel(w) ==
  /\ wk[w].pc = "rt_check_cancel"
  /\ bundle' = [bundle EXCEPT ![wk[w].task] =
                  _emit_tool_results(@, wk[w].completed
                                          \ completed_ids_from_state(wk[w].resume_state))]
  /\ IF tasks[wk[w].task].state = "canceled"
     THEN /\ HandleRelease(w)
          /\ wk' = Return(w)
     ELSE /\ wk' = [wk EXCEPT ![w].pc = "rt_finish"]
          /\ UNCHANGED lockVars
  /\ UNCHANGED <<execVars, apprVars, webVars, tasks, approvals, db_writer, now, cancel, resume_files,
                 executed, returned_to, ahead, bundle_plan,
                 canceled_waiting>>

\* _run_task lines 231-278: paused at a checkpoint -> the resume state is
\* written and the task waits, locks retained; otherwise the task is
\* completed and the locks are released
W_Finish(w) ==
  /\ wk[w].pc = "rt_finish"
  /\ DbFree
  /\ LET t == wk[w].task IN
     IF wk[w].state # Nothing
     THEN /\ resume_files' = [resume_files EXCEPT ![t] = wk[w].state]
          /\ tasks' = [tasks EXCEPT ![t] =
                         update_task_state(@, "waiting_approval", Nothing,
                                           Some(Get(wk[w].state).next_checkpoint),
                                           Some(Len(Get(wk[w].state).completed_ids)), FALSE, now)]
          /\ bundle' = [bundle EXCEPT ![t] =
                          EventAndSnapshot(@, "task_waiting_approval", "waiting_approval")]
          /\ al' = [al EXCEPT ![w] = NoLocals]
          /\ UNCHANGED lock_files
     ELSE /\ tasks' = [tasks EXCEPT ![t] =
                         update_task_state(@, "completed", Nothing, Nothing,
                                           Some(Len(TaskPlan(t).tool_calls)), TRUE, now)]
          /\ bundle' = [bundle EXCEPT ![t] = EventAndSnapshot(@, "task_completed", "completed")]
          /\ HandleRelease(w)
          /\ UNCHANGED resume_files
  /\ wk' = Return(w)
  /\ UNCHANGED <<execVars, apprVars, webVars, approvals, db_writer, now, cancel, executed, returned_to, ahead, bundle_plan,
                 canceled_waiting>>


\* cmd_coworker_runtime_cancel lines 1187-1191: the task is read; a terminal
\* task is left alone
C_Read(t) ==
  /\ cancel.pc = "idle"
  /\ tasks[t].state \notin {"completed", "failed", "canceled"}
  /\ cancel' = [pc |-> "update", task |-> t, was_running |-> tasks[t].state = "running"]
  /\ UNCHANGED <<execVars, apprVars, webVars, lockVars, tasks, approvals, db_writer, now, wk,
                 resume_files, executed, returned_to, ahead, bundle_plan,
                 canceled_waiting, bundle>>

\* lines 1192-1197: update_task_state(canceled); for a task that was running
\* the command goes straight on to lines 1207-1236, the event and the snapshot
C_Update ==
  /\ cancel.pc = "update"
  /\ DbFree
  /\ tasks' = [tasks EXCEPT ![cancel.task] =
                 update_task_state(@, "canceled", Some("canceled by user"), Nothing, Nothing,
                                   ~cancel.was_running, now)]
  /\ cancel' = IF cancel.was_running THEN NoCancelLocals ELSE [cancel EXCEPT !.pc = "release"]
  /\ canceled_waiting' = IF tasks[cancel.task].state = "waiting_approval"
                         THEN canceled_waiting \cup {cancel.task} ELSE canceled_waiting
  /\ bundle' = IF cancel.was_running
               THEN [bundle EXCEPT ![cancel.task] =
                       EventAndSnapshot(@, "task_canceled", "canceled")]
               ELSE bundle
  /\ UNCHANGED <<execVars, apprVars, webVars, lockVars, approvals, db_writer, now, wk,
                 resume_files, executed, returned_to, ahead, bundle_plan>>

\* lines 1199-1236: release_task_locks, over metadata.selected_paths, for a
\* task that was not running; then the event and the snapshot
C_Release ==
  /\ cancel.pc = "release"
  /\ lock_files' = release_task_locks(lock_files, tasks[cancel.task].metadata.selected_paths,
                                      cancel.task)
  /\ bundle' = [bundle EXCEPT ![cancel.task] = EventAndSnapshot(@, "task_canceled", "canceled")]
  /\ cancel' = NoCancelLocals
  /\ UNCHANGED <<execVars, apprVars, webVars, al, tasks, approvals, db_writer, now, wk, resume_files,
                 executed, returned_to, ahead, bundle_plan,
                 canceled_waiting>>

\* one step of worker w: run_once from claim to return
WorkerStep(w) ==
  \/ W_ClaimSelect(w)
  \/ W_ClaimUpdate(w)
  \/ W_WaitingList(w)
  \/ W_WaitingTry(w)
  \/ W_RunLatest(w)
  \/ W_LockCheck(w)
  \/ W_LockExists(w)
  \/ W_LockCreate(w)
  \/ W_LockFailed(w)
  \/ W_Gate(w)
  \/ W_ApplyPrelude(w)
  \/ W_Call(w)
  \/ W_CheckCancel(w)
  \/ W_Finish(w)

\* Spec: the workers of the daemon and the approve command
Next ==
  \/ Tick
  \/ \E row \in ApprovalRows : RecordApproval(row)
  \/ \E w \in Workers : WorkerStep(w)

Spec == Init /\ [][Next]_vars

\* SpecCancel: one worker, the approve command and the cancel command
NextCancel ==
  \/ Tick
  \/ \E row \in ApprovalRows : RecordApproval(row)
  \/ \E t \in TaskIds : C_Read(t)
  \/ C_Update
  \/ C_Release
  \/ WorkerStep("w1")

SpecCancel == Init /\ [][NextCancel]_vars


\* ------------------------------------------------------------------------
\* Properties of the runtime
\* ------------------------------------------------------------------------

\* C1: under any interleaving of the workers' claim_next_task calls, a task
\* is returned by at most one call until it is set back to queued.
C1_ExclusiveClaim == \A t \in TaskIds : Len(returned_to[t]) <= 1

\* both workers have called claim_next_task and each was given its own task
C1_Witness ==
  /\ returned_to["t1"] # <<>>
  /\ returned_to["t2"] # <<>>
  /\ returned_to["t1"] # returned_to["t2"]

\* C3: once a task's state is canceled, the worker running it never changes
\* the state to completed.
C3_CanceledNotCompleted ==
  [][\A t \in TaskIds : tasks[t].state = "canceled" => tasks'[t].state # "completed"]_vars

\* the checkpoint the daemon resolves for a task from its bundle
PendingCheckpoint(t) == _resolve_checkpoint_id(TaskPlan(t).checkpoints, resume_files[t])

NoApprovalRecorded(t) ==
  \A a \in approvals :
    ~(a.plan_hash = tasks[t].plan_hash /\ a.checkpoint_id = PendingCheckpoint(t))

AtGate(w) == wk[w].pc = "rt_locking" /\ al[w].pc = "held"

\* C6: when approvals are required and none is recorded for the claimed
\* task's plan hash and pending checkpoint, the worker's next step sets the
\* task to waiting_approval and returns, and no tool call of the task runs;
\* and a tool call only ever runs for a task for which such a row exists.
C6_NoApprovalWaits ==
  [][\A w \in Workers :
       /\ (AtGate(w) /\ wk'[w] # wk[w] /\ policy.require_approval
             /\ NoApprovalRecorded(wk[w].task))
          => /\ tasks'[wk[w].task].state = "waiting_approval"
             /\ executed'[wk[w].task] = executed[wk[w].task]
             /\ wk'[w].pc = "idle"
       /\ (wk[w].pc = "rt_call" /\ policy.require_approval
             /\ executed'[wk[w].task] # executed[wk[w].task])
          => \E a \in approvals :
               /\ a.plan_hash = tasks[wk[w].task].plan_hash
               /\ a.checkpoint_id = wk[w].checkpoint_id]_vars

\* only another plan's hash was approved: the task waits, nothing of it ran
C6_Witness ==
  \E t \in TaskIds :
    /\ tasks[t].state = "waiting_approval"
    /\ tasks[t].locked_by # NONE
    /\ approvals # {}
    /\ \A a \in approvals : a.plan_hash # tasks[t].plan_hash
    /\ executed[t] = <<>>
    /\ \E q \in DOMAIN lock_files : lock_files[q] = t

\* ------------------------------------------------------------------------
\* SpecQueue: the task store alone - create_task, claim_next_task and the
\* requeue of a running task, against the one-second clock of _utc_now
\* ------------------------------------------------------------------------
QueuedIds(tk) == { u \in DOMAIN tk : tk[u].state = "queued" }

InitQueue ==
  /\ web = NoWeb
  /\ ExecIdle
  /\ ApprIdle
  /\ LockIdle
  /\ DaemonIdle

\* create_task: the row is inserted with created_at = updated_at = _utc_now()
Q_Create(t) ==
  /\ t \notin DOMAIN tasks
  /\ tasks' = [u \in DOMAIN tasks \cup {t} |->
                 IF u = t THEN [NewTask(t) EXCEPT !.created_at = now, !.updated_at = now]
                 ELSE tasks[u]]
  /\ UNCHANGED <<execVars, apprVars, webVars, lockVars, approvals, db_writer, now, wk, cancel,
                 resume_files, executed, returned_to, ahead, bundle_plan,
                 canceled_waiting, bundle>>

\* claim_next_task as one transaction: the oldest queued row becomes running
Q_ClaimNext(w) ==
  /\ \E t \in OldestQueued(tasks) :
       /\ tasks' = [tasks EXCEPT ![t] = ClaimRow(@, w, now)]
       /\ ahead' = [u \in TaskIds |-> IF u = t THEN {} ELSE ahead[u] \ {t}]
  /\ UNCHANGED <<execVars, apprVars, webVars, lockVars, approvals, db_writer, now, wk, cancel,
                 resume_files, executed, returned_to, bundle_plan,
                 canceled_waiting, bundle>>

\* _try_lock_task line 381: update_task_state(state="queued", clear_lock=True)
Q_Requeue(t) ==
  /\ t \in DOMAIN tasks
  /\ tasks[t].state = "running"
  /\ tasks' = [tasks EXCEPT ![t] = RequeueOnLockFailure(@, now)]
  /\ ahead' = [ahead EXCEPT ![t] = QueuedIds(tasks) \ {t}]
  /\ UNCHANGED <<execVars, apprVars, webVars, lockVars, approvals, db_writer, now, wk, cancel,
                 resume_files, executed, returned_to, bundle_plan,
                 canceled_waiting, bundle>>

\* _run_task line 257: update_task_state(state="completed", clear_lock=True)
Q_Complete(t) ==
  /\ t \in DOMAIN tasks
  /\ tasks[t].state = "running"
  /\ tasks' = [tasks EXCEPT
                 ![t] = update_task_state(@, "completed", Nothing, Nothing,
                                          Some(Len(TaskPlan(t).tool_calls)), TRUE, now)]
  /\ ahead' = [u \in TaskIds |-> ahead[u] \ {t}]
  /\ UNCHANGED <<execVars, apprVars, webVars, lockVars, approvals, db_writer, now, wk, cancel,
                 resume_files, executed, returned_to, bundle_plan,
                 canceled_waiting, bundle>>

NextQueue ==
  \/ Tick
  \/ \E t \in TaskIds : Q_Create(t)
  \/ \E w \in Workers : Q_ClaimNext(w)
  \/ \E t \in TaskIds : Q_Requeue(t)
  \/ \E t \in TaskIds : Q_Complete(t)

SpecQueue == InitQueue /\ [][NextQueue]_vars

\* C11: a task set back to queued is claimed by claim_next_task only after
\* every other task that was queued at the time of the requeue, whatever
\* the timing of the requeue relative to the other tasks' timestamps.
C11_RequeuedGoesLast ==
  [][\A t \in DOMAIN tasks :
       (tasks[t].state = "queued" /\ tasks'[t].state = "running") => ahead[t] = {}]_vars

\* ------------------------------------------------------------------------
\* SpecHash: compute_plan_hash on plan files that carry, or lack, the
\* plan_hash, approval and created_at fields
\* ------------------------------------------------------------------------
Reverse(sq) == [i \in 1..Len(sq) |-> sq[Len(sq) + 1 - i]]

\* the tool_calls and checkpoints of the plan files
PlanBodies ==
  { DelField(b, "created_at") :
      b \in { TaskPlan("t1"), [TaskPlan("t1") EXCEPT !.tool_calls = Reverse(@)],
              TaskPlan("t2") } }

Absent == {}

\* a dict with the optional fields given as Absent or Some(value)
WithOptional(p, key, opt) == IF opt = Absent THEN p ELSE SetField(p, key, Get(opt))

PlanDocs ==
  { WithOptional(WithOptional(WithOptional(b, "plan_hash", h), "approval", a), "created_at", c) :
      b \in PlanBodies,
      h \in {Absent} \cup { Some(compute_plan_hash(x)) : x \in PlanBodies },
      a \in {Absent, Some(build_approval(compute_plan_hash(TaskPlan("t1")), NONE)),
             Some(build_approval(compute_plan_hash(TaskPlan("t2")), "1"))},
      c \in {Absent, Some(0)} }

InitHash ==
  /\ web = NoWeb
  /\ plan \in PlanDocs
  /\ policy = Policy(TRUE)
  /\ approval = Nothing
  /\ resume_state = Nothing
  /\ stop_at_checkpoints = FALSE
  /\ fs = InitialFs
  /\ xpc = "ready"
  /\ result = NoResult
  /\ ApprIdle
  /\ LockIdle
  /\ DaemonIdle

\* ensure_plan_hash(plan)
H_EnsureHash ==
  /\ plan' = ensure_plan_hash(plan)
  /\ plan' # plan
  /\ UNCHANGED <<policy, approval, resume_state, stop_at_checkpoints, fs, xpc, result,
                 apprVars, webVars, lockVars, daemonVars>>

\* write_plan(path, plan)
H_WritePlan ==
  /\ plan' = write_plan(plan, now)
  /\ plan' # plan
  /\ UNCHANGED <<policy, approval, resume_state, stop_at_checkpoints, fs, xpc, result,
                 apprVars, webVars, lockVars, daemonVars>>

NextHash ==
  \/ Tick
  \/ H_EnsureHash
  \/ H_WritePlan

SpecHash == InitHash /\ [][NextHash]_vars

\* two plans agree on every key other than plan_hash and approval
SameContent(p, q) ==
  \A k \in (DOMAIN p \cup DOMAIN q) \ {"plan_hash", "approval"} :
    k \in DOMAIN p /\ k \in DOMAIN q /\ p[k] = q[k]

S_Submit(t, p) ==
  /\ t \notin DOMAIN tasks
  /\ DbFree
  /\ tasks' = [u \in DOMAIN tasks \cup {t} |->
                 IF u = t
                 THEN [NewTask(t) EXCEPT !.plan_hash = compute_plan_hash(p),
                                         !.created_at = now, !.updated_at = now]
                 ELSE tasks[u]]
  /\ bundle_plan' = [bundle_plan EXCEPT ![t] = Some(SubmittedBundle(p, now))]
  /\ UNCHANGED <<execVars, apprVars, webVars, lockVars, approvals, db_writer, now, wk, cancel,
                 resume_files, executed, returned_to, ahead, canceled_waiting, bundle>>

InitSubmit ==
  /\ web = NoWeb
  /\ ExecIdle
  /\ ApprIdle
  /\ LockIdle
  /\ DaemonIdle

NextSubmit ==
  \/ Tick
  \/ \E t \in TaskIds : \E p \in {TaskPlan(t), DelField(TaskPlan(t), "created_at")} :
       S_Submit(t, p)
  \/ \E row \in ApprovalRows : RecordApproval(row)
  \/ WorkerStep("w1")

SpecSubmit == InitSubmit /\ [][NextSubmit]_vars

\* C13: for every plan submitted through the runtime and not modified
\* afterwards, with or without a created_at field, the hash the daemon
\* recomputes from the bundle's plan.json equals the stored plan_hash, so the
\* task does not fail with a hash mismatch.
C13_SubmitKeepsHash ==
  \A t \in DOMAIN tasks : tasks[t].error # PlanHashMismatch

\* ------------------------------------------------------------------------
\* Properties of cancellation and of the path locks
\* ------------------------------------------------------------------------
LockFilesOf(lf, t) == { q \in DOMAIN lf : lf[q] = t }

\* C14: when a task in waiting_approval is canceled, its state becomes
\* canceled, its path lock files are released by the time the cancel command
\* is done, and none of its tool calls executes afterwards, whatever approval
\* is recorded.
C14_CancelWaiting ==
  [][/\ \A t \in canceled_waiting :
          /\ tasks'[t].state = "canceled"
          /\ executed'[t] = executed[t]
     /\ \A t \in canceled_waiting' :
          /\ tasks'[t].state = "canceled"
          /\ cancel'.pc = "idle" => LockFilesOf(lock_files', t) = {}]_vars

\* SpecFair: one worker and the approve command; the daemon's loop keeps
\* calling run_once, so the worker keeps taking steps
NextFair ==
  \/ Tick
  \/ \E row \in ApprovalRows : RecordApproval(row)
  \/ WorkerStep("w1")

SpecFair == Init /\ [][NextFair]_vars /\ WF_vars(WorkerStep("w1"))

\* a lock file of another task overlaps the paths of task t
Conflict(lf, t) ==
  \E q \in DOMAIN lf : \E k \in 1..Len(SelectedPaths(t)) :
    /\ lf[q] \notin {NONE, t}
    /\ Overlap(q, _resolve_path(SelectedPaths(t)[k]))

\* worker w is locking its task and found, when it read the locks directory,
\* a lock of another task that overlaps the task's paths, or acquire_locks
\* has already given up on such a lock
Blocked(w) ==
  /\ wk[w].pc = "rt_locking"
  /\ \/ al[w].pc = "failed"
     \/ \E e \in al[w].existing : \E k \in 1..Len(SelectedPaths(wk[w].task)) :
          /\ e[2] # wk[w].task
          /\ Overlap(e[1], _resolve_path(SelectedPaths(wk[w].task)[k]))

\* C15: when a claimed task's path locks overlap a lock held by another
\* task, the daemon executes none of its tool calls and sets it back to
\* queued with its DB lock cleared; once the holder has released, a later
\* run_once claims the task again, acquires the locks and runs it, so the
\* task does not stay queued.
C15_DeferredThenRun ==
  /\ [][\A w \in Workers :
          Blocked(w) =>
            /\ executed'[wk[w].task] = executed[wk[w].task]
            /\ al'[w].pc # "held"
            /\ wk'[w].pc \in {"rt_locking", "cw_list", "idle"}
            /\ wk'[w].pc # "rt_locking" =>
                 /\ tasks'[wk[w].task].state = "queued"
                 /\ tasks'[wk[w].task].locked_by = NONE]_vars
  /\ \A t \in TaskIds :
       <>[](~Conflict(lock_files, t)) => <>[](tasks[t].state # "queued")

\* t2 was set back to queued because t1 held the lock of its parent
\* directory, and has since been claimed again and run to completion
C15_Witness ==
  /\ tasks["t2"].state = "completed"
  /\ executed["t2"] # <<>>
  /\ tasks["t1"].state = "completed"
  /\ tasks["t2"].updated_at > tasks["t1"].updated_at
  /\ lock_files = [q \in DOMAIN lock_files |-> NONE]

\* the selected paths of the two tasks overlap
PathsOverlap(t, u) ==
  \E i \in 1..Len(SelectedPaths(t)) : \E j \in 1..Len(SelectedPaths(u)) :
    Overlap(_resolve_path(SelectedPaths(t)[i]), _resolve_path(SelectedPaths(u)[j]))

\* C16: from the moment a worker moves a task to waiting_approval until the
\* task is resumed, failed or canceled, its path lock files stay in place,
\* and no other task with overlapping paths executes a tool call.
C16_WaitingKeepsOthersOut ==
  [][\A t \in TaskIds :
       tasks[t].state = "waiting_approval" =>
         /\ \A k \in 1..Len(SelectedPaths(t)) :
              lock_files[_resolve_path(SelectedPaths(t)[k])] = t
         /\ \A u \in TaskIds \ {t} :
              PathsOverlap(t, u) => executed'[u] = executed[u]]_vars

\* C17: in every reachable state of the store a running task has a
\* non-null locked_by, and a completed, failed, canceled or queued task has
\* a null locked_by.
C17_LockedByMatchesState ==
  \A t \in DOMAIN tasks :
    /\ tasks[t].state = "running" => tasks[t].locked_by # NONE
    /\ tasks[t].state \in {"completed", "failed", "canceled", "queued"}
         => tasks[t].locked_by = NONE

\* ------------------------------------------------------------------------
\* Properties of the checkpoints of apply_plan_with_state
\* ------------------------------------------------------------------------
\* apply_plan_with_state has returned, without raising, for a plan of two
\* writes "1", "2" with checkpoints ["2"], stop_at_checkpoints and the
\* approval (H, "2")
TwoWritesCheckpointOnLast ==
  /\ xpc = "done"
  /\ result.exc = NONE
  /\ Len(plan.tool_calls) = 2
  /\ \A i \in 1..2 : plan.tool_calls[i].tool \in WRITE_TOOLS
  /\ plan.checkpoints = <<"2">>
  /\ stop_at_checkpoints
  /\ resume_state = Nothing
  /\ approval = Some(build_approval(compute_plan_hash(plan), "2"))

\* C18 as the spec states it: only call "1" executes, the second write is
\* pending and the resume state has completed_ids == ["1"].
C18_Original ==
  TwoWritesCheckpointOnLast =>
    /\ result.executed = <<1>>
    /\ result.state # Nothing
    /\ Get(result.state).completed_ids = <<"1">>

\* C18: for a plan of two writes "1", "2" with checkpoints ["2"], applying
\* with stop_at_checkpoints and the approval (H, "2") executes both calls:
\* the checkpoint is the final call, so apply does not pause and returns no
\* resume state.
C18_CheckpointOnLastRunsBoth ==
  TwoWritesCheckpointOnLast =>
    /\ result.executed = <<1, 2>>
    /\ result.completed = {"1", "2"}
    /\ result.state = Nothing
    /\ \A i \in 1..2 : Exists(fs, DestinationOf(plan.tool_calls[i]))

C18_Witness ==
  /\ TwoWritesCheckpointOnLast
  /\ policy.require_approval
  /\ result.executed # <<>>

\* the calls apply_plan_with_state does not skip, given the resume state
ToRun == { i \in 1..Len(plan.tool_calls) :
             plan.tool_calls[i].id \notin completed_ids_from_state(resume_state) }

\* the calls after which a pause is due: checkpoints that are not the final call
PauseDue == { i \in ToRun : /\ plan.tool_calls[i].id \in SeqToSet(plan.checkpoints)
                            /\ i < Len(plan.tool_calls) }

FirstOf(S) == CHOOSE i \in S : \A j \in S : i <= j

\* the positions of the calls run up to position k, in plan order
RanUpTo(k) ==
  LET Ran(i) == i \in ToRun /\ i <= k
  IN  SelectSeq([i \in 1..Len(plan.tool_calls) |-> i], Ran)

IdsOf(positions) == { plan.tool_calls[positions[j]].id : j \in 1..Len(positions) }

\* C19: with stop_at_checkpoints, apply_plan_with_state returns a resume
\* state exactly when a call it has just completed is a checkpoint and not
\* the final tool call; it returns at once, without executing later calls,
\* with completed_ids sorted and next_checkpoint the first checkpoint not
\* yet completed, or null; a checkpoint on the final call does not pause.
C19_PauseAfterCheckpoint ==
  (xpc = "done" /\ stop_at_checkpoints /\ result.exc = NONE) =>
    IF PauseDue = {}
    THEN /\ result.state = Nothing
         /\ result.executed = RanUpTo(Len(plan.tool_calls))
    ELSE LET done == completed_ids_from_state(resume_state)
                       \cup IdsOf(RanUpTo(FirstOf(PauseDue)))
             left == SelectSeq(plan.checkpoints, LAMBDA c : c \notin done)
         IN  /\ result.executed = RanUpTo(FirstOf(PauseDue))
             /\ result.state # Nothing
             /\ Get(result.state).plan_hash = compute_plan_hash(plan)
             /\ Get(result.state).completed_ids = SortIds(done)
             /\ Get(result.state).next_checkpoint = IF left = <<>> THEN NONE ELSE left[1]

\* apply paused after checkpoint "1" of two, with call "2", the next
\* checkpoint, still to run
C19_Witness ==
  /\ xpc = "done"
  /\ stop_at_checkpoints
  /\ result.exc = NONE
  /\ result.state # Nothing
  /\ result.executed = <<1>>
  /\ Len(plan.tool_calls) = 2
  /\ Get(result.state).next_checkpoint = "2"

\* C20: apply_plan_with_state raises PlanValidationError, executing no
\* tool call, whenever checkpoints contains an id that is not the id of any
\* tool call.
C20_UnknownCheckpointRejected ==
  (xpc = "done" /\ \E c \in SeqToSet(plan.checkpoints) : c \notin PlanIds) =>
    /\ result.exc = "PlanValidationError"
    /\ result.executed = <<>>

\* ------------------------------------------------------------------------
\* Properties of the promotion of waiting tasks
\* ------------------------------------------------------------------------
\* C21: a waiting_approval task becomes running only when an approval row
\* exists whose plan_hash is the task's plan_hash and whose checkpoint_id is
\* the task's next_checkpoint (for a null next_checkpoint: a plan-level
\* approval, never a checkpoint-scoped one).
C21_PromotedOnlyWithApproval ==
  [][\A t \in DOMAIN tasks :
       (tasks[t].state = "waiting_approval" /\ tasks'[t].state = "running") =>
         \E a \in approvals : /\ a.plan_hash = tasks[t].plan_hash
                              /\ a.checkpoint_id = tasks[t].next_checkpoint]_vars

\* ------------------------------------------------------------------------
\* SpecMeta: the daemon's two workers and the approve command, over tasks
\* created with or without selected_paths in their metadata
\* ------------------------------------------------------------------------
\* the metadata create_task may be given: what submit writes, or no selected
\* paths, with the allowed roots alone (t1) or with nothing at all (t2)
MetadataChoices(t) ==
  { TaskMetadata(t),
    [selected_paths |-> <<>>, allowed_roots |-> IF t = "t1" THEN <<RootDir>> ELSE <<>>] }

InitMeta ==
  /\ web = NoWeb
  /\ ExecIdle
  /\ ApprIdle
  /\ LockIdle
  /\ \E m \in [TaskIds -> UNION { MetadataChoices(t) : t \in TaskIds }] :
       /\ \A t \in TaskIds : m[t] \in MetadataChoices(t)
       /\ tasks = [t \in TaskIds |-> [NewTask(t) EXCEPT !.metadata = m[t]]]
  /\ approvals = {}
  /\ db_writer = NONE
  /\ now = 0
  /\ wk = [w \in Workers |-> NoWorkerLocals]
  /\ cancel = NoCancelLocals
  /\ resume_files = [t \in TaskIds |-> Nothing]
  /\ executed = [t \in TaskIds |-> <<>>]
  /\ returned_to = [t \in TaskIds |-> <<>>]
  /\ ahead = [t \in TaskIds |-> {}]
  /\ bundle_plan = [t \in TaskIds |-> Some(SubmittedBundle(TaskPlan(t), 0))]
  /\ canceled_waiting = {}
  /\ bundle = [t \in TaskIds |-> NewBundle]

SpecMeta == InitMeta /\ [][Next]_vars

\* C22: every task whose tool calls the daemon executes holds at least one
\* path lock while each of them executes (over its selected_paths, else its
\* allowed_roots, else the state directory), so two tasks without any paths
\* never execute concurrently.
C22_ExecutesUnderLock ==
  [][/\ \A t \in TaskIds :
          executed'[t] # executed[t] =>
            /\ LockFilesOf(lock_files, t) # {}
            /\ LockFilesOf(lock_files', t) # {}
     /\ \A w, v \in Workers :
          (/\ w # v
           /\ wk[w].pc = "rt_call" /\ wk[v].pc = "rt_call"
           /\ tasks[wk[w].task].metadata.selected_paths = <<>>
           /\ tasks[wk[v].task].metadata.selected_paths = <<>>) => FALSE]_vars

\* ------------------------------------------------------------------------
\* Properties of the task bundle
\* ------------------------------------------------------------------------
\* no worker is between claiming t and leaving it, and the cancel command is
\* not at work on t
AtRest(t) ==
  /\ \A w \in Workers : wk[w].task # t
  /\ cancel.task # t

\* C23: after every state transition performed by the daemon or the cancel
\* command (the return to queued when the locks are busy and the transition
\* to failed included), task.json has been re-written: once the transition's
\* handler is done with the task, the snapshot's state is the state in the DB.
C23_SnapshotFollowsState ==
  \A t \in DOMAIN tasks : AtRest(t) => bundle[t].state = tasks[t].state

\* C24: the cancel command releases the lock files held by the task if and
\* only if the task was not running when it was canceled: canceling a
\* running task leaves the lock files in place for its worker, canceling any
\* other task is followed by the release of all its lock files.
C24_ReleaseIffNotRunning ==
  [][/\ (cancel.pc = "update" /\ cancel'.pc # "update") =>
          IF tasks[cancel.task].state = "running"
          THEN cancel'.pc = "idle" /\ lock_files' = lock_files
          ELSE cancel'.pc = "release"
     /\ (cancel.pc = "release" /\ cancel'.pc = "idle") =>
          LockFilesOf(lock_files', cancel.task) = {}]_vars

\* ---------------------------------------------------------------------------
\* SpecWeb: one web.fetch call is validated, then fetch_url runs against a server
\* that answers every request with a redirect or with a body.
\* ---------------------------------------------------------------------------
InitWeb ==
  /\ \E pol \in WebPolicies, args \in WebArgs :
       web = [NoWeb EXCEPT !.policy = pol, !.args = args]
  /\ ExecIdle
  /\ ApprIdle
  /\ LockIdle
  /\ DaemonIdle

\* validate_plan on the plan holding the call
ValidateWeb ==
  /\ web.pc = "idle"
  /\ web' = [web EXCEPT !.errors = Some(_validate_web_call(web.args, web.policy)),
                        !.pc = "validated"]
  /\ UNCHANGED <<execVars, apprVars, lockVars, daemonVars>>

\* the executor's web.fetch branch up to the request: a validated call only
fetch_url ==
  /\ web.pc = "validated"
  /\ web.errors = Some(<<>>)
  /\ LET max_bytes == IF web.args.max_bytes = Nothing THEN web.policy.max_web_bytes
                      ELSE Get(web.args.max_bytes)
         allowlist == Get(web.args.allowlist)
         u == Get(web.args.url)
     IN IF max_bytes <= 0 \/ allowlist = <<>>
        THEN web' = [web EXCEPT !.pc = "raised", !.exc = "RuntimeError"]
        ELSE IF _ensure_allowed_url(u, allowlist) # "None"
        THEN web' = [web EXCEPT !.pc = "raised", !.exc = "URLError"]
        ELSE web' = [web EXCEPT !.pc = "open", !.url = Some(u)]
  /\ UNCHANGED <<execVars, apprVars, lockVars, daemonVars>>

\* the server answers the request for web.url with a redirect to newurl
redirect_request ==
  /\ web.pc = "open"
  /\ \E newurl \in WebUrls :
       IF web.hops >= MaxRedirects \/ _ensure_allowed_url(newurl, Get(web.args.allowlist)) # "None"
       THEN web' = [web EXCEPT !.pc = "raised", !.exc = "RuntimeError"]
       ELSE web' = [web EXCEPT !.url = Some(newurl), !.hops = @ + 1]
  /\ UNCHANGED <<execVars, apprVars, lockVars, daemonVars>>

\* the server answers the request for web.url with a body
FetchReturn ==
  /\ web.pc = "open"
  /\ IF _ensure_allowed_url(Get(web.url), Get(web.args.allowlist)) # "None"
     THEN web' = [web EXCEPT !.pc = "raised", !.exc = "RuntimeError"]
     ELSE web' = [web EXCEPT !.pc = "returned"]
  /\ UNCHANGED <<execVars, apprVars, lockVars, daemonVars>>

NextWeb ==
  \/ ValidateWeb
  \/ fetch_url
  \/ redirect_request
  \/ FetchReturn

SpecWeb == InitWeb /\ [][NextWeb]_vars

\* C25: validate_plan returns "web.fetch allowlist not permitted by policy" for
\* every web.fetch call (web enabled, url and a non-empty allowlist given) whose
\* allowlist has an entry that is not in policy.web_allowlist, compared without
\* regard to case, whatever the policy allowlist is, the empty one included;
\* the plan is then not applied.
OutsidePolicy(args, pol) ==
  \E i \in 1..Len(Get(args.allowlist)) :
    Lower(Get(args.allowlist)[i]) \notin LowerSet(pol.web_allowlist)

C25_AllowlistWithinPolicy ==
  (/\ web.pc # "idle"
   /\ web.policy.web_enabled
   /\ web.args.url # Nothing
   /\ web.args.allowlist \notin {Nothing, Some(<<>>)}
   /\ OutsidePolicy(web.args, web.policy))
  => /\ \E i \in 1..Len(Get(web.errors)) :
          Get(web.errors)[i] = "web.fetch allowlist not permitted by policy"
     /\ web.pc = "validated"

\* C26: fetch_url follows no redirect, first or later, whose target has a scheme
\* other than http/https, a host outside the allow-list, or a query string that
\* allow_query does not permit or that is longer than max_query_chars; so no
\* body of such a target is returned.
QueryPermitted(u, args, pol) ==
  u.query = <<>> \/ (Truthy(args.allow_query) /\ Len(u.query) <= pol.max_query_chars)

C26_RedirectsWithinPolicy ==
  (web.pc \in {"open", "returned"} /\ web.hops > 0)
  => LET u == Get(web.url)
     IN /\ u.scheme \in {"http", "https"}
        /\ _host_allowed(u.host, Get(web.args.allowlist))
        /\ QueryPermitted(u, web.args, web.policy)

\* C27: when the resume state has completed every checkpoint of the plan and
\* tool calls remain, apply_plan_with_state (approval required, plan valid)
\* asks for the plan-level approval: with an approval of the plan's hash scoped
\* to a checkpoint it raises ApprovalError and executes nothing; with the
\* plan-level approval it raises no ApprovalError and, if no call raises, runs
\* every remaining call and returns no resume state.
FinalSegment ==
  /\ policy.require_approval
  /\ resume_state # Nothing
  /\ Get(resume_state).plan_hash = compute_plan_hash(plan)
  /\ plan.checkpoints # <<>>
  /\ SeqToSet(plan.checkpoints) \subseteq completed_ids_from_state(resume_state)
  /\ ToRun # {}

PlanIsValid ==
  LET v == validate_plan(plan, policy, fs) IN v.exc = NONE /\ v.errors = <<>>

C27_WitnessRan ==
  /\ xpc = "done"
  /\ FinalSegment
  /\ approval = Some(build_approval(compute_plan_hash(plan), NONE))
  /\ result.exc = NONE
  /\ result.executed # <<>>
  /\ result.state = Nothing

\* C28: the worker looks for a cancellation between tool calls: when the cancel
\* of a task is already recorded as one of its tool calls finishes, the worker
\* starts no further tool call of that task.
C28_NoCallAfterCancel ==
  [][\A w \in Workers :
       (/\ wk[w].pc = "rt_call"
        /\ tasks[wk[w].task].state = "canceled"
        /\ executed'[wk[w].task] # executed[wk[w].task])
       => wk'[w].pc # "rt_call"]_vars

\* C29: when acquire_locks meets a conflict it returns the empty handle and
\* removes only lock files that this call created: every lock file that was
\* there when the call began, one held by the calling task included, is still
\* there after the call has failed.
C29_FailureKeepsEarlierLocks ==
  [][\A w \in Workers :
       (al[w].pc \in {"check", "exists", "create"} /\ al'[w].pc = "failed") =>
         /\ al'[w].lock_files = <<>>
         /\ \A e \in al[w].existing :
              lock_files[e[1]] = e[2] => lock_files'[e[1]] = e[2]]_vars

\* ---------------------------------------------------------------------------
\* SpecRaise: one worker and the approve command, while somebody else removes
\* the file that the plan of t2 reads.
\* ---------------------------------------------------------------------------
\* the file is removed by another program
FileRemoved ==
  /\ fs[<<"r", "a">>] # "absent"
  /\ fs' = [fs EXCEPT ![<<"r", "a">>] = "absent"]
  /\ UNCHANGED <<execRest, apprVars, webVars, lockVars, daemonVars>>

NextRaise ==
  \/ Tick
  \/ \E row \in ApprovalRows : RecordApproval(row)
  \/ WorkerStep("w1")
  \/ FileRemoved

SpecRaise == Init /\ [][NextRaise]_vars

\* C30: when a tool primitive raises while the daemon runs a task, run_once
\* returns, the task is failed with the exception's message as its error, a
\* task_failed event is the last line of the bundle's events.jsonl, and the
\* task holds no path lock file.
PrimitiveRaises(w) ==
  /\ wk[w].pc = "rt_call"
  /\ LET call == TaskPlan(wk[w].task).tool_calls[wk[w].idx]
     IN  ~SkipCall(call, wk[w].completed) /\ ExecCall(call, fs).exc # NONE

C30_PrimitiveFailureRecorded ==
  [][\A w \in Workers :
       (PrimitiveRaises(w) /\ wk'[w] # wk[w]) =>
         LET t    == wk[w].task
             call == TaskPlan(t).tool_calls[wk[w].idx]
         IN  /\ wk'[w].pc = "idle"
             /\ tasks'[t].state = "failed"
             /\ tasks'[t].error = ExecCall(call, fs).exc
             /\ bundle'[t].last_event = "task_failed"
             /\ LockFilesOf(lock_files', t) = {}]_vars

\* C31: when the plan loaded for a claimed task hashes to another value than
\* the plan_hash stored in its row, the daemon sets the task to failed with the
\* plan-hash-mismatch error, executes none of its tool calls and releases the
\* lock files of the task; the worker returns.
HashMismatch(t) == compute_plan_hash(Get(bundle_plan[t])) # tasks[t].plan_hash

C32_ResumeFileIffPaused ==
  \A t \in DOMAIN tasks :
    /\ executed[t] = <<>> => resume_files[t] = Nothing
    /\ (AtRest(t) /\ tasks[t].state = "waiting_approval" /\ executed[t] # <<>>)
         => resume_files[t] # Nothing
    /\ (AtRest(t) /\ tasks[t].state \in {"completed", "failed", "canceled"})
         => resume_files[t] = Nothing

\* C33: when run_once has claimed a queued task and defers it because its path
\* locks are busy, the task goes back to queued, unlocked, and the same call
\* goes on to _claim_waiting_task; what that call promotes and runs is a
\* waiting_approval task with an approval of its plan hash, the task the call
\* reports; for the rest of the call no queued row is changed.
Approved(t) == latest_approval(approvals, tasks[t].plan_hash, tasks[t].next_checkpoint) # {}

AllowedTransitions ==
  { <<"queued", "running">>, <<"queued", "canceled">>,
    <<"running", "completed">>, <<"running", "failed">>, <<"running", "canceled">>,
    <<"running", "waiting_approval">>, <<"running", "queued">>,
    <<"waiting_approval", "running">>, <<"waiting_approval", "canceled">> }

C34_StateMachine ==
  [][\A t \in DOMAIN tasks :
       tasks'[t].state # tasks[t].state =>
         <<tasks[t].state, tasks'[t].state>> \in AllowedTransitions]_vars

\* C35: two workers never run the same task: a worker that is running a task
\* (from the claim to the return of _run_task) holds the row, which is running
\* and locked by that worker, and no other worker is running that task.
RunPcs == {"rt_latest", "rt_locking", "rt_apply", "rt_call", "rt_check_cancel", "rt_finish"}

C35_OneWorkerPerTask ==
  \A w \in Workers :
    wk[w].pc \in RunPcs =>
      /\ tasks[wk[w].task].state = "running"
      /\ tasks[wk[w].task].locked_by = w
      /\ \A v \in Workers \ {w} : wk[v].pc \in RunPcs => wk[v].task # wk[w].task

\* one worker is executing a tool call of a task it promoted while the other
\* worker, which listed the task as waiting_approval, is about to try its claim
C35_Witness ==
  \E w, v \in Workers :
    /\ w # v
    /\ wk[w].pc = "rt_call"
    /\ wk[v].pc = "cw_try"
    /\ wk[v].cands[1].id = wk[w].task

\* ---------------------------------------------------------------------------
\* SpecStop: the two workers and the approve command, where the process of
\* worker w1 may end while it runs a task: its locals and its lock handle are
\* gone, the row and the lock files are what it last wrote.
\* ---------------------------------------------------------------------------
W_Stop(w) ==
  /\ wk[w].pc \in RunPcs
  /\ tasks[wk[w].task].state = "running"
  /\ wk' = [wk EXCEPT ![w] = [NoWorkerLocals EXCEPT !.pc = "stopped", !.task = wk[w].task]]
  /\ al' = [al EXCEPT ![w] = NoLocals]
  /\ UNCHANGED <<execVars, apprVars, webVars, lock_files, tasks, approvals, db_writer, now,
                 cancel, resume_files, executed, returned_to, ahead, bundle_plan,
                 canceled_waiting, bundle>>

NextStop ==
  \/ Tick
  \/ \E row \in ApprovalRows : RecordApproval(row)
  \/ \E w \in Workers : WorkerStep(w)
  \/ W_Stop("w1")

SpecStop == Init /\ [][NextStop]_vars

LK_CancelRelease(t, paths) ==
  /\ \E q \in DOMAIN lock_files : lock_files[q] = t
  /\ lock_files' = release_task_locks(lock_files, paths, t)
  /\ UNCHANGED <<al, execVars, apprVars, webVars, daemonVars>>

NextLocksCancel ==
  \/ NextLocks
  \/ \E t \in TaskIds, paths \in LockRequests : LK_CancelRelease(t, paths)

SpecLocksCancel == InitLocks /\ [][NextLocksCancel]_vars

\* C37: no operation performed for a task removes a lock file whose recorded
\* owner is another task: a step of a caller working for task A (release of
\* its handle, cleanup of its failed acquire_locks) removes only files owned by
\* A, and a release_task_locks removes files of one task only, in every
\* interleaving of cancel and the callers.
Removed == { q \in DOMAIN lock_files : lock_files[q] # NONE /\ lock_files'[q] = NONE }

C37_OnlyOwnLocksRemoved ==
  [][/\ \A w \in Workers :
          al'[w] # al[w] => \A q \in Removed : lock_files[q] = TaskOfCaller(w)
     /\ al' = al => \A q, r \in Removed : lock_files[q] = lock_files[r]]_vars

\* C38: whenever a task is completed, failed or canceled and neither a worker
\* nor the cancel command is at work on it, no lock file owned by the task
\* exists.
C38_TerminalHoldsNoLock ==
  \A t \in DOMAIN tasks :
    (AtRest(t) /\ tasks[t].state \in {"completed", "failed", "canceled"})
      => LockFilesOf(lock_files, t) = {}

\* ------------------------------------------------------------------------
\* SpecIds: the one-shot flow over plans whose call ids are any non-empty
\* strings; plan.py validate_plan (lines 30-49) asks of an id only that it
\* is a non-empty string, so two calls may carry the same id
\* ------------------------------------------------------------------------
CallIds == {"1", "2"}

ToolCallListsAnyIds ==
  UNION { { [i \in 1..n |-> [f[i] EXCEPT !.id = ids[i]]]
            : f \in [1..n -> CallTemplates], ids \in [1..n -> CallIds] }
          : n \in 0..MaxCalls }

PlansAnyIds ==
  UNION { { MakePlan(tc, cps) : cps \in CheckpointLists(Len(tc)) } : tc \in ToolCallListsAnyIds }

InitIds ==
  /\ web = NoWeb
  /\ plan \in PlansAnyIds
  /\ policy \in {Policy(TRUE), Policy(FALSE)}
  /\ approval = Nothing
  /\ resume_state = Nothing
  /\ stop_at_checkpoints \in BOOLEAN
  /\ fs = InitialFs
  /\ xpc = "ready"
  /\ result = NoResult
  /\ ApprIdle
  /\ LockIdle
  /\ DaemonIdle

SpecIds == InitIds /\ [][NextExec]_vars

\* the positions first..last of a plan, in plan order
Positions(first, last) == [i \in 1..(last - first + 1) |-> first + i - 1]

\* C39: every apply that returns without raising executes the entries of
\* tool_calls that follow the last entry executed by the apply before it
\* (the first entry, on the initial apply), one after the other in plan order
\* and each once, and the apply that returns no resume state executes them
\* up to the last entry of the plan.
C39_EachCallOnceInOrder ==
  [][(xpc = "ready" /\ xpc' = "done" /\ result'.exc = NONE) =>
       LET first == IF resume_state = Nothing THEN 1
                    ELSE result.executed[Len(result.executed)] + 1
           last  == IF result'.state = Nothing THEN Len(plan.tool_calls)
                    ELSE first + Len(result'.executed) - 1
       IN result'.executed = Positions(first, last)]_vars

\* the row `coworker-runtime approve` records for plan hash H and checkpoint c
ApprovalRow(H, c) == [plan_hash |-> H, checkpoint_id |-> c]

\* C40: no step of a worker, of the executor inside it, of the cancel command
\* or of the approve command removes or changes a row of the approvals table;
\* and whenever the row (H, c) is in the table, a worker that runs a task whose
\* plan hash is H and whose pending checkpoint is c passes the approval lookup
\* of _run_task and the approval gate of apply_plan_with_state: the task is not
\* sent to waiting_approval.
C40_ApprovalsAppendOnly ==
  [][/\ approvals \subseteq approvals'
     /\ \A w \in Workers :
          /\ (/\ wk[w].pc = "rt_locking"
              /\ al[w].pc = "held"
              /\ ~HashMismatch(wk[w].task)
              /\ ApprovalRow(tasks[wk[w].task].plan_hash, PendingCheckpoint(wk[w].task))
                   \in approvals
              /\ wk'[w] # wk[w])
               => /\ wk'[w].pc = "rt_apply"
                  /\ wk'[w].approval # Nothing
                  /\ tasks'[wk[w].task].state = tasks[wk[w].task].state
          /\ (/\ wk[w].pc = "rt_apply"
              /\ ApprovalRow(tasks[wk[w].task].plan_hash, wk[w].checkpoint_id) \in approvals
              /\ wk'[w] # wk[w])
               => tasks'[wk[w].task].state # "waiting_approval"]_vars

\* a task ran to completion under its two approvals, and both rows are still
\* in the table
C40_Witness ==
  /\ tasks["t1"].state = "completed"
  /\ executed["t1"] = <<"1", "2">>
  /\ ApprovalRow(tasks["t1"].plan_hash, "1") \in approvals
  /\ ApprovalRow(tasks["t1"].plan_hash, NONE) \in approvals

====
